---- MODULE Spec2Model ----
(***************************************************************************)
(* Frame scheduler of chunklands-rs (src/game/vulkan): the render loop of  *)
(* Game::make_loop, Vulkan::draw_frame, Vulkan::on_framebuffer_changed,    *)
(* Swapchain::new, Swapchain::destroy and Vulkan::destroy, together with   *)
(* the part of the GPU the scheduler synchronises with (fences, semaphores,*)
(* pending submissions and present requests), and the selection functions  *)
(* of create_swapchain.                                                    *)
(*                                                                         *)
(* The CPU is one thread; pc is its position.  The GPU and the             *)
(* presentation engine run concurrently (AcquireSignal, GpuStart,          *)
(* GpuRetire, PresentExecute).  Every driver entry point that can fail     *)
(* returns either success or one of the error codes drawn with \E.         *)
(***************************************************************************)
EXTENDS Integers, Sequences, FiniteSets, TLC

\* ------------------------------------------------------------------ bounds
MaxDraws == 3
MaxImages == 3

\* --------------------------------------------------------------- constants
MAX_FRAMES_IN_FLIGHT == 2
NULL_HANDLE == 0

SUCCESS == "SUCCESS"
ERROR_OUT_OF_DATE_KHR == "ERROR_OUT_OF_DATE_KHR"
ERROR_DEVICE_LOST == "ERROR_DEVICE_LOST"
ERROR_SURFACE_LOST_KHR == "ERROR_SURFACE_LOST_KHR"

\* Error::VulkanError(code) is modelled by its code, Error::Other by "Other".
Ok == "Ok"
Other == "Other"

\* codes a fence wait, fence reset, queue submit or idle wait can fail with
FenceErrors == {ERROR_DEVICE_LOST}
\* codes vkAcquireNextImageKHR / vkQueuePresentKHR can fail with
SurfaceErrors == {ERROR_OUT_OF_DATE_KHR, ERROR_DEVICE_LOST, ERROR_SURFACE_LOST_KHR}
\* codes the sub-steps of Swapchain::new can fail with
CreateErrors == {ERROR_DEVICE_LOST, Other}

\* the sub-steps of Swapchain::new that can fail, in the order of the code
CreateSteps ==
    <<"create_swapchain", "create_render_pass", "create_graphics_pipeline",
      "create_vertex_buffer", "get_swapchain_images_khr", "SwapchainImage::new">>

Slots == 0..(MAX_FRAMES_IN_FLIGHT - 1)

\* handle of the in-flight fence of slot s (handles are non-null)
InFlightFence(s) == s + 1
\* slot whose in-flight fence has handle h
FenceSlot(h) == h - 1
\* handles of the two semaphores of slot s
AvailableSemaphore(s) == MAX_FRAMES_IN_FLIGHT + 1 + s
RenderedSemaphore(s) == 2 * MAX_FRAMES_IN_FLIGHT + 1 + s
Semaphores ==
    {AvailableSemaphore(s) : s \in Slots} \cup {RenderedSemaphore(s) : s \in Slots}

VARIABLES
    pc,             \* position of the CPU thread
    ret,            \* Result returned by the last call that returned
    should_close,   \* window.should_close()
    sc_ctx,         \* Vulkan.sc_ctx: "None" or "Some"
    sc_handles,     \* Swapchain.ctx: identity of the handles of the bundle
    images,         \* Swapchain.images: in_flight_fence of every image
    bundle_live,    \* GPU resources of a swapchain bundle exist
    current_frame,  \* Vulkan.current_frame
    fence,          \* fence[s]: in-flight fence of slot s is signaled
    pending,        \* queue submissions not yet retired by the GPU
    semaphore,      \* semaphore[h]: state of the semaphore with handle h
    presents,       \* present requests whose semaphore wait has not run
    image_index,    \* draw_frame's local image_index_index
    inflight_frames,\* Vulkan.inflight_frames: the handles of every slot
    ctx_live,       \* the device context exists
    teardown,       \* the Swapchain::destroy in progress or last run
    log,            \* what Game::make_loop's end and Vulkan::destroy did
    used,           \* used[s]: slot s's fence was reset at least once
    nDraw,          \* number of draw_frame calls made
    nAdvance,       \* number of draw_frame calls that presented
    invalid,        \* causes of surface invalidation since the last
                    \* draw_frame entry: "acquire", "present", "resize"
    call,           \* the call in progress or last returned: what the
                    \* driver reported in it and what it did
    cs              \* the selection in progress: its inputs and its result

vars == <<pc, ret, should_close, sc_ctx, sc_handles, images,
          bundle_live, current_frame, fence, pending, semaphore, presents,
          image_index, inflight_frames, ctx_live, teardown, log, used, nDraw,
          nAdvance, invalid, call, cs>>

sched == <<sc_ctx, sc_handles, images, bundle_live, current_frame, fence,
           pending, semaphore, presents, inflight_frames, ctx_live, used, log>>

\* the GPU side and what no step of draw_frame touches
gpu == <<fence, pending, semaphore, presents>>
fixed == <<should_close, inflight_frames, ctx_live, log, cs>>

\* FenceCreateInfo.flags = FENCE_CREATE_SIGNALED_BIT: the fence starts signaled
create_unsignaled_fence == FALSE
create_signaled_fence == TRUE

InFlightFrame_shared(s) ==
    [available_semaphore |-> AvailableSemaphore(0),
     rendered_semaphore |-> RenderedSemaphore(0),
     in_flight_fence |-> InFlightFence(0)]

\* InFlightFrame::new for slot s: two new semaphores and a new fence
InFlightFrame_new(s) ==
    [available_semaphore |-> AvailableSemaphore(s),
     rendered_semaphore |-> RenderedSemaphore(s),
     in_flight_fence |-> InFlightFence(s)]

\* the ring Vulkan::new builds: one InFlightFrame per slot
FrameRing == [i \in 1..MAX_FRAMES_IN_FLIGHT |-> InFlightFrame_new(i - 1)]

\* a semaphore that is neither signaled nor about to be
Unsignaled == [state |-> "unsignaled", src |-> "none", id |-> 0]

NoCall ==
    [op |-> "none", cf_entry |-> 0, had_bundle |-> FALSE, created |-> FALSE,
     outdated |-> "none", presented |-> FALSE, drv_step |-> "none",
     drv_err |-> "none", prev_gate |-> NULL_HANDLE, invalidated |-> {},
     trace |-> << >>, images_entry |-> << >>, handles_entry |-> 0]

NoTeardown ==
    [by |-> "none", idle_ok |-> FALSE, released |-> FALSE, n_images |-> 0,
     order |-> << >>]

\* no create_swapchain selection is running
NoCs == [pc |-> "off"]

Init ==
    /\ pc = "loop"
    /\ ret = Ok
    /\ should_close = FALSE
    /\ sc_ctx = "None"
    /\ sc_handles = NULL_HANDLE
    /\ images = << >>
    /\ bundle_live = FALSE
    /\ current_frame = 0
    /\ fence = [s \in Slots |-> create_signaled_fence]
    /\ pending = {}
    /\ semaphore = [h \in Semaphores |-> Unsignaled]
    /\ presents = {}
    /\ image_index = 0
    /\ inflight_frames = FrameRing
    /\ ctx_live = TRUE
    /\ teardown = NoTeardown
    /\ log = << >>
    /\ used = [s \in Slots |-> FALSE]
    /\ nDraw = 0
    /\ nAdvance = 0
    /\ invalid = {}
    /\ call = NoCall
    /\ cs = NoCs

\* ------------------------------------------------------------ pure helpers
NextFrame_unwrapped(cf) == cf + 1
NextFrame(cf) == (cf + 1) % MAX_FRAMES_IN_FLIGHT

IsOutdated_any(r) == r # SUCCESS
IsOutdated(r) == r = ERROR_OUT_OF_DATE_KHR

\* Option::take: the value is moved out and None is left behind
take_keep(opt) == opt
take(opt) == "None"

\* current_frame after the match on present_result
AfterPresent_always(r, cf) == NextFrame(cf)
AfterPresent(r, cf) == IF r = SUCCESS THEN NextFrame(cf) ELSE cf

\* ------------------------------------------------------- returning a Result
Return(r) ==
    /\ pc' = "returned"
    /\ ret' = r

\* the call record after the step `step` of the call was executed
Did(step) == [call EXCEPT !.trace = Append(@, step)]

\* `?` on a failed driver call inside draw_frame at step `step`
Fail(step, e) ==
    /\ Return(e)
    /\ call' = [Did(step) EXCEPT !.drv_step = step, !.drv_err = e]

\* Vulkan::destroy_swapchain: take the bundle, then Swapchain::destroy
DestroySwapchain_direct(by) ==
    /\ sc_ctx' = take(sc_ctx)
    /\ images' = IF take(sc_ctx) = "None" THEN << >> ELSE images
    /\ sc_handles' = IF take(sc_ctx) = "None" THEN NULL_HANDLE ELSE sc_handles
    /\ teardown' = [NoTeardown EXCEPT !.by = by, !.n_images = Len(images)]
    /\ invalid' = IF by = "shutdown" THEN invalid ELSE invalid \cup {by}
    /\ pc' = "sc_release"

DestroySwapchain(by) ==
    /\ sc_ctx' = take(sc_ctx)
    /\ images' = IF take(sc_ctx) = "None" THEN << >> ELSE images
    /\ sc_handles' = IF take(sc_ctx) = "None" THEN NULL_HANDLE ELSE sc_handles
    /\ teardown' = [NoTeardown EXCEPT !.by = by, !.n_images = Len(images)]
    /\ invalid' = IF by = "shutdown" THEN invalid ELSE invalid \cup {by}
    /\ pc' = "sc_wait_idle"

\* --------------------------------------------------------- Game::make_loop
\* while !self.window.should_close() { self.glfw.poll_events(); ... }
LoopIter ==
    /\ pc = "loop"
    /\ ~should_close
    /\ nDraw < MaxDraws
    /\ pc' = "events"
    /\ UNCHANGED <<ret, should_close, sched, image_index,
                   teardown, nDraw, nAdvance, invalid, call, cs>>

\* the loop ends: vulkan.wait_idle() is next
LoopExit ==
    /\ pc = "loop"
    /\ should_close
    /\ pc' = "wait_idle"
    /\ UNCHANGED <<ret, should_close, sched, image_index,
                   teardown, nDraw, nAdvance, invalid, call, cs>>

\* Escape pressed (or the close button): window.set_should_close(true)
EventClose ==
    /\ pc = "events"
    /\ ~should_close
    /\ should_close' = TRUE
    /\ UNCHANGED <<pc, ret, sched, image_index, teardown,
                   nDraw, nAdvance, invalid, call, cs>>

OnFramebufferChanged_keep ==
    /\ pc = "events"
    /\ call' = [NoCall EXCEPT !.op = "on_framebuffer_changed",
                              !.cf_entry = current_frame,
                              !.had_bundle = (sc_ctx = "Some")]
    /\ IF sc_ctx = "Some"
         THEN /\ teardown' = [NoTeardown EXCEPT !.by = "resize",
                                                !.n_images = Len(images)]
              /\ pc' = "sc_wait_idle"
              /\ invalid' = invalid \cup {"resize"}
              /\ UNCHANGED <<ret, sc_ctx, sc_handles, images>>
         ELSE /\ Return(Ok)
              /\ invalid' = invalid \cup {"resize"}
              /\ UNCHANGED <<sc_ctx, sc_handles, images, teardown>>
    /\ UNCHANGED <<bundle_live, current_frame, gpu, image_index, fixed, used,
                   nDraw, nAdvance>>

\* WindowEvent::FramebufferSize: vulkan.on_framebuffer_changed()
OnFramebufferChanged ==
    /\ pc = "events"
    /\ call' = [NoCall EXCEPT !.op = "on_framebuffer_changed",
                              !.cf_entry = current_frame,
                              !.had_bundle = (sc_ctx = "Some")]
    /\ IF sc_ctx = "Some"
         THEN /\ DestroySwapchain("resize")
              /\ UNCHANGED ret
         ELSE /\ Return(Ok)
              /\ invalid' = invalid \cup {"resize"}
              /\ UNCHANGED <<sc_ctx, sc_handles, images, teardown>>
    /\ UNCHANGED <<bundle_live, current_frame, gpu, image_index, fixed, used,
                   nDraw, nAdvance>>

\* vulkan.draw_frame(&self.window): entry, test of self.sc_ctx.is_none(); the
\* local image_index_index and the record of the last teardown start afresh
DrawFrameCall_always ==
    /\ pc = "events"
    /\ nDraw' = nDraw + 1
    /\ call' = [NoCall EXCEPT !.op = "draw_frame",
                              !.cf_entry = current_frame,
                              !.had_bundle = (sc_ctx = "Some"),
                              !.invalidated = invalid,
                              !.images_entry = images,
                              !.handles_entry = sc_handles]
    /\ invalid' = {}
    /\ image_index' = 0
    /\ teardown' = NoTeardown
    /\ pc' = "df_create"
    /\ UNCHANGED <<ret, should_close, sched, nAdvance, cs>>

DrawFrameCall ==
    /\ pc = "events"
    /\ nDraw' = nDraw + 1
    /\ call' = [NoCall EXCEPT !.op = "draw_frame",
                              !.cf_entry = current_frame,
                              !.had_bundle = (sc_ctx = "Some"),
                              !.invalidated = invalid,
                              !.images_entry = images,
                              !.handles_entry = sc_handles]
    /\ invalid' = {}
    /\ image_index' = 0
    /\ teardown' = NoTeardown
    /\ pc' = IF sc_ctx = "None" THEN "df_create" ELSE "df_wait_frame"
    /\ UNCHANGED <<ret, should_close, sched, nAdvance, cs>>

\* .unwrap() on the Result of draw_frame / on_framebuffer_changed: a panic
\* unwinds out of make_loop and drops the Game
Unwrap ==
    /\ pc = "returned"
    /\ pc' = IF ret # Ok THEN "drop"
             ELSE IF call.op = "draw_frame" THEN "loop" ELSE "events"
    /\ UNCHANGED <<ret, should_close, sched, image_index,
                   teardown, nDraw, nAdvance, invalid, call, cs>>

\* vulkan.wait_idle(): queue_wait_idle(present_queue), which covers the
\* submissions only if the graphics queue is the present queue (same_queue);
\* then make_loop returns
\* (or .unwrap() panics); either way the Game is dropped next
WaitIdle ==
    /\ pc = "wait_idle"
    /\ \/ /\ presents = {}
          /\ \E same_queue \in BOOLEAN : same_queue => pending = {}
          /\ ret' = Ok
          /\ log' = Append(log, "wait_idle")
       \/ /\ \E e \in FenceErrors : ret' = e
          /\ UNCHANGED log
    /\ pc' = "drop"
    /\ call' = [NoCall EXCEPT !.op = "wait_idle"]
    /\ UNCHANGED <<should_close, sc_ctx, sc_handles, images,
                   bundle_live, current_frame, gpu, inflight_frames, ctx_live,
                   used, image_index, teardown, nDraw, nAdvance, invalid, cs>>

SwapchainImage_slot0 == InFlightFence(0)

\* SwapchainImage::new: in_flight_fence of a new image
SwapchainImage_new == NULL_HANDLE

\* -------------------------------------------------------- Vulkan::draw_frame
\* self.create_swapchain(window)?: Swapchain::new builds the whole bundle or
\* fails at one of its sub-steps; every image starts with
\* in_flight_fence = NULL_HANDLE; self.sc_ctx is assigned only after
\* Swapchain::new returned Ok
DfCreate_return ==
    /\ pc = "df_create"
    /\ \/ \E n \in 1..MaxImages :
            /\ sc_ctx' = "Some"
            /\ sc_handles' = nDraw
            /\ images' = [i \in 1..n |-> SwapchainImage_new]
            /\ bundle_live' = TRUE
            /\ call' = [Did("create") EXCEPT !.created = TRUE]
            /\ Return(Ok)
       \/ \E k \in 1..Len(CreateSteps), e \in CreateErrors :
            /\ Fail(CreateSteps[k], e)
            /\ UNCHANGED <<sc_ctx, sc_handles, images, bundle_live>>
    /\ UNCHANGED <<current_frame, gpu, image_index, fixed, teardown, used,
                   nDraw, nAdvance, invalid>>

DfCreate_partial ==
    /\ pc = "df_create"
    /\ \/ \E n \in 1..MaxImages :
            /\ sc_ctx' = "Some"
            /\ sc_handles' = nDraw
            /\ images' = [i \in 1..n |-> SwapchainImage_new]
            /\ bundle_live' = TRUE
            /\ call' = [Did("create") EXCEPT !.created = TRUE]
            /\ pc' = "df_wait_frame"
            /\ UNCHANGED ret
       \/ \E k \in 1..Len(CreateSteps), e \in CreateErrors :
            /\ Fail(CreateSteps[k], e)
            /\ sc_ctx' = "Some"
            /\ sc_handles' = nDraw
            /\ images' = << >>
            /\ UNCHANGED bundle_live
    /\ UNCHANGED <<current_frame, gpu, image_index, fixed, teardown, used,
                   nDraw, nAdvance, invalid>>

DfCreate ==
    /\ pc = "df_create"
    /\ \/ \E n \in 1..MaxImages :
            /\ sc_ctx' = "Some"
            /\ sc_handles' = nDraw
            /\ images' = [i \in 1..n |-> SwapchainImage_new]
            /\ bundle_live' = TRUE
            /\ call' = [Did("create") EXCEPT !.created = TRUE]
            /\ pc' = "df_wait_frame"
            /\ UNCHANGED ret
       \/ \E k \in 1..Len(CreateSteps), e \in CreateErrors :
            /\ Fail(CreateSteps[k], e)
            /\ UNCHANGED <<sc_ctx, sc_handles, images, bundle_live>>
    /\ UNCHANGED <<current_frame, gpu, image_index, fixed, teardown, used,
                   nDraw, nAdvance, invalid>>

\* inflight_frames.get(current_frame), then wait_for_fences on the slot's
\* in-flight fence with timeout u64::MAX
DfWaitFrame_nowait ==
    /\ pc = "df_wait_frame"
    /\ IF current_frame \notin Slots
         THEN Fail("get_frame", Other)
         ELSE \/ /\ pc' = "df_acquire"
                 /\ call' = Did("wait_frame")
                 /\ UNCHANGED ret
              \/ \E e \in FenceErrors : Fail("wait_frame", e)
    /\ UNCHANGED <<should_close, sched, image_index, teardown,
                   nDraw, nAdvance, invalid, cs>>

DfWaitFrame_reset ==
    /\ pc = "df_wait_frame"
    /\ IF current_frame \notin Slots
         THEN /\ Fail("get_frame", Other)
              /\ UNCHANGED <<fence, used>>
         ELSE \/ /\ fence[current_frame]
                 /\ fence' = [fence EXCEPT ![current_frame] = FALSE]
                 /\ used' = [used EXCEPT ![current_frame] = TRUE]
                 /\ pc' = "df_acquire"
                 /\ call' = [call EXCEPT !.trace = @ \o <<"wait_frame", "reset">>]
                 /\ UNCHANGED ret
              \/ /\ \E e \in FenceErrors : Fail("wait_frame", e)
                 /\ UNCHANGED <<fence, used>>
    /\ UNCHANGED <<should_close, sc_ctx, sc_handles, images, bundle_live,
                   current_frame, pending, semaphore, presents, inflight_frames,
                   ctx_live, log, image_index, teardown, nDraw, nAdvance,
                   invalid, cs>>

DfWaitFrame ==
    /\ pc = "df_wait_frame"
    /\ IF current_frame \notin Slots
         THEN Fail("get_frame", Other)
         ELSE \/ /\ fence[current_frame]
                 /\ pc' = "df_acquire"
                 /\ call' = Did("wait_frame")
                 /\ UNCHANGED ret
              \/ \E e \in FenceErrors : Fail("wait_frame", e)
    /\ UNCHANGED <<should_close, sched, image_index, teardown,
                   nDraw, nAdvance, invalid, cs>>

\* the indices acquire_next_image_khr can return: an image is not handed out
\* while it is queued for presentation; an index that is no image of the
\* bundle stands for a driver that misbehaves
Acquirable ==
    {i \in 0..MaxImages : i < Len(images) => \A q \in presents : q.image # i}

\* the semaphore acquire_next_image_khr is given: the slot's
\* available_semaphore
AcquireSemaphore(cf) == inflight_frames[cf + 1].available_semaphore

\* acquire_next_image_khr, the test for ERROR_OUT_OF_DATE_KHR, `acquire_result?`
\* and swapchain.images.get_mut(image_index_index); a successful acquire
\* leaves a signal of its semaphore pending with the presentation engine
DfAcquire_lateCheck ==
    /\ pc = "df_acquire"
    /\ \/ \E i \in Acquirable :
            /\ semaphore' = [semaphore EXCEPT ![AcquireSemaphore(current_frame)] =
                                [state |-> "pending", src |-> "acquire", id |-> nDraw]]
            /\ IF i < Len(images)
                 THEN /\ image_index' = i
                      /\ pc' = "df_wait_image"
                      /\ call' = Did("acquire")
                      /\ UNCHANGED <<ret, fence>>
                 ELSE /\ Return(Other)
                      /\ fence' = [fence EXCEPT ![current_frame] = FALSE]
                      /\ call' = [Did("acquire") EXCEPT
                                     !.drv_step = "get_image", !.drv_err = Other,
                                     !.trace = @ \o <<"reset", "get_image">>]
                      /\ UNCHANGED image_index
            /\ UNCHANGED <<sc_ctx, sc_handles, images, teardown, invalid>>
       \/ \E e \in SurfaceErrors :
            /\ IF IsOutdated(e)
                 THEN /\ DestroySwapchain("acquire")
                      /\ call' = [Did("acquire") EXCEPT
                                     !.outdated = "acquire",
                                     !.drv_step = "acquire", !.drv_err = e]
                      /\ UNCHANGED ret
                 ELSE /\ Fail("acquire", e)
                      /\ UNCHANGED <<sc_ctx, sc_handles, images, teardown, invalid>>
            /\ UNCHANGED <<image_index, semaphore, fence>>
    /\ UNCHANGED <<bundle_live, current_frame, pending, presents, fixed,
                   used, nDraw, nAdvance>>

DfAcquire ==
    /\ pc = "df_acquire"
    /\ \/ \E i \in Acquirable :
            /\ semaphore' = [semaphore EXCEPT ![AcquireSemaphore(current_frame)] =
                                [state |-> "pending", src |-> "acquire", id |-> nDraw]]
            /\ IF i < Len(images)
                 THEN /\ image_index' = i
                      /\ pc' = "df_wait_image"
                      /\ call' = Did("acquire")
                      /\ UNCHANGED ret
                 ELSE /\ Return(Other)
                      /\ call' = [Did("acquire") EXCEPT
                                     !.drv_step = "get_image", !.drv_err = Other,
                                     !.trace = Append(@, "get_image")]
                      /\ UNCHANGED image_index
            /\ UNCHANGED <<sc_ctx, sc_handles, images, teardown, invalid>>
       \/ \E e \in SurfaceErrors :
            /\ IF IsOutdated(e)
                 THEN /\ DestroySwapchain("acquire")
                      /\ call' = [Did("acquire") EXCEPT
                                     !.outdated = "acquire",
                                     !.drv_step = "acquire", !.drv_err = e]
                      /\ UNCHANGED ret
                 ELSE /\ Fail("acquire", e)
                      /\ UNCHANGED <<sc_ctx, sc_handles, images, teardown, invalid>>
            /\ UNCHANGED <<image_index, semaphore>>
    /\ UNCHANGED <<bundle_live, current_frame, fence, pending, presents, fixed,
                   used, nDraw, nAdvance>>

\* the wait on the image's recorded fence if it is not NULL_HANDLE, then
\* swapchain_image.in_flight_fence = current_inflight_frame.in_flight_fence
DfWaitImage_keep ==
    /\ pc = "df_wait_image"
    /\ \/ /\ images[image_index + 1] # NULL_HANDLE => fence[FenceSlot(images[image_index + 1])]
          /\ UNCHANGED images
          /\ call' = [Did("wait_image") EXCEPT !.prev_gate = images[image_index + 1]]
          /\ pc' = "df_reset"
          /\ UNCHANGED ret
       \/ /\ images[image_index + 1] # NULL_HANDLE
          /\ \E e \in FenceErrors : Fail("wait_image", e)
          /\ UNCHANGED images
    /\ UNCHANGED <<sc_ctx, sc_handles, bundle_live, current_frame, gpu,
                   image_index, fixed, teardown, used, nDraw, nAdvance, invalid>>

DfWaitImage_all ==
    /\ pc = "df_wait_image"
    /\ \/ /\ images[image_index + 1] # NULL_HANDLE => fence[FenceSlot(images[image_index + 1])]
          /\ images' = [i \in 1..Len(images) |->
                           inflight_frames[current_frame + 1].in_flight_fence]
          /\ call' = [Did("wait_image") EXCEPT !.prev_gate = images[image_index + 1]]
          /\ pc' = "df_reset"
          /\ UNCHANGED ret
       \/ /\ images[image_index + 1] # NULL_HANDLE
          /\ \E e \in FenceErrors : Fail("wait_image", e)
          /\ UNCHANGED images
    /\ UNCHANGED <<sc_ctx, sc_handles, bundle_live, current_frame, gpu,
                   image_index, fixed, teardown, used, nDraw, nAdvance, invalid>>

DfWaitImage ==
    /\ pc = "df_wait_image"
    /\ \/ /\ images[image_index + 1] # NULL_HANDLE => fence[FenceSlot(images[image_index + 1])]
          /\ images' = [images EXCEPT ![image_index + 1] =
                           inflight_frames[current_frame + 1].in_flight_fence]
          /\ call' = [Did("wait_image") EXCEPT !.prev_gate = images[image_index + 1]]
          /\ pc' = "df_reset"
          /\ UNCHANGED ret
       \/ /\ images[image_index + 1] # NULL_HANDLE
          /\ \E e \in FenceErrors : Fail("wait_image", e)
          /\ UNCHANGED images
    /\ UNCHANGED <<sc_ctx, sc_handles, bundle_live, current_frame, gpu,
                   image_index, fixed, teardown, used, nDraw, nAdvance, invalid>>

\* reset_fences on the slot's in-flight fence
DfReset ==
    /\ pc = "df_reset"
    /\ \/ /\ fence' = [fence EXCEPT ![current_frame] = FALSE]
          /\ used' = [used EXCEPT ![current_frame] = TRUE]
          /\ pc' = "df_submit"
          /\ call' = Did("reset")
          /\ UNCHANGED ret
       \/ /\ \E e \in FenceErrors : Fail("reset", e)
          /\ UNCHANGED <<fence, used>>
    /\ UNCHANGED <<sc_ctx, sc_handles, images, bundle_live, current_frame,
                   pending, semaphore, presents, image_index, fixed, teardown,
                   nDraw, nAdvance, invalid>>

\* SubmitInfo of slot cf: the semaphore waited for at
\* COLOR_ATTACHMENT_OUTPUT, the semaphore signaled, and the fence handed to
\* queue_submit
SubmitWait(cf) == inflight_frames[cf + 1].available_semaphore
SubmitSignal(cf) == inflight_frames[cf + 1].rendered_semaphore
SubmitFence_other(cf) == inflight_frames[NextFrame(cf) + 1].in_flight_fence
SubmitFence(cf) == inflight_frames[cf + 1].in_flight_fence

\* queue_submit of the image's command buffer with the slot's fence
DfSubmit ==
    /\ pc = "df_submit"
    /\ \/ /\ pending' = pending \cup
                 {[id |-> nDraw, slot |-> current_frame, image |-> image_index,
                   wait |-> SubmitWait(current_frame),
                   signal |-> SubmitSignal(current_frame),
                   fence |-> SubmitFence(current_frame),
                   stage |-> "queued"]}
          /\ pc' = "df_present"
          /\ call' = Did("submit")
          /\ UNCHANGED ret
       \/ /\ \E e \in FenceErrors : Fail("submit", e)
          /\ UNCHANGED pending
    /\ UNCHANGED <<sc_ctx, sc_handles, images, bundle_live, current_frame,
                   fence, semaphore, presents, image_index, fixed, teardown,
                   used, nDraw, nAdvance, invalid>>

\* PresentInfoKHR.pWaitSemaphores of slot cf: the signal_semaphores of the
\* submission
PresentWait_available(cf) == inflight_frames[cf + 1].available_semaphore
PresentWait(cf) == inflight_frames[cf + 1].rendered_semaphore

\* results of vkQueuePresentKHR with which the request, and with it its
\* semaphore wait, is still enqueued
PresentEnqueued(r) == r \in {SUCCESS, ERROR_OUT_OF_DATE_KHR, ERROR_SURFACE_LOST_KHR}

\* queue_present_khr, the match on present_result and the advance of
\* current_frame
DfPresent ==
    /\ pc = "df_present"
    /\ \E r \in {SUCCESS} \cup SurfaceErrors :
         /\ current_frame' = AfterPresent(r, current_frame)
         /\ presents' = IF PresentEnqueued(r)
                          THEN presents \cup
                                 {[id |-> nDraw, slot |-> current_frame,
                                   image |-> image_index,
                                   wait |-> PresentWait(current_frame)]}
                          ELSE presents
         /\ IF r = SUCCESS
              THEN /\ nAdvance' = nAdvance + 1
                   /\ call' = [Did("present") EXCEPT !.presented = TRUE]
                   /\ Return(Ok)
                   /\ UNCHANGED <<sc_ctx, sc_handles, images, teardown, invalid>>
              ELSE /\ UNCHANGED nAdvance
                   /\ IF IsOutdated(r)
                        THEN /\ DestroySwapchain("present")
                             /\ call' = [Did("present") EXCEPT
                                            !.outdated = "present",
                                            !.drv_step = "present", !.drv_err = r]
                             /\ UNCHANGED ret
                        ELSE /\ Fail("present", r)
                             /\ UNCHANGED <<sc_ctx, sc_handles, images, teardown,
                                            invalid>>
    /\ UNCHANGED <<bundle_live, fence, pending, semaphore, image_index, fixed,
                   used, nDraw>>

\* ------------------------------------------------------- Swapchain::destroy
\* where Swapchain::destroy returns to: the Result is propagated by
\* draw_frame and on_framebuffer_changed and dropped by Vulkan::destroy
DestroyReturn_ok(r) ==
    IF teardown.by = "shutdown"
      THEN /\ pc' = "destroy_ctx"
           /\ UNCHANGED ret
      ELSE Return(Ok)

DestroyReturn(r) ==
    IF teardown.by = "shutdown"
      THEN /\ pc' = "destroy_ctx"
           /\ UNCHANGED ret
      ELSE Return(r)

\* what a step of Swapchain::destroy adds to the log of Vulkan::destroy
ShutdownLog(entry) ==
    IF teardown.by = "shutdown" THEN Append(log, entry) ELSE log

\* ctx.dp.device_wait_idle(ctx.device).map_err(to_vulkan)?
ScWaitIdle_nowait ==
    /\ pc = "sc_wait_idle"
    /\ \/ /\ teardown' = [teardown EXCEPT !.idle_ok = TRUE]
          /\ log' = ShutdownLog("device_wait_idle")
          /\ pc' = "sc_release"
          /\ UNCHANGED ret
       \/ \E e \in FenceErrors :
            /\ DestroyReturn(e)
            /\ UNCHANGED <<teardown, log>>
    /\ UNCHANGED <<should_close, sc_ctx, sc_handles, images,
                   bundle_live, current_frame, gpu, inflight_frames, ctx_live,
                   used, image_index, nDraw, nAdvance, invalid, call, cs>>

ScWaitIdle ==
    /\ pc = "sc_wait_idle"
    /\ \/ /\ pending = {}
          /\ presents = {}
          /\ teardown' = [teardown EXCEPT !.idle_ok = TRUE]
          /\ log' = ShutdownLog("device_wait_idle")
          /\ pc' = "sc_release"
          /\ UNCHANGED ret
       \/ \E e \in FenceErrors :
            /\ DestroyReturn(e)
            /\ UNCHANGED <<teardown, log>>
    /\ UNCHANGED <<should_close, sc_ctx, sc_handles, images,
                   bundle_live, current_frame, gpu, inflight_frames, ctx_live,
                   used, image_index, nDraw, nAdvance, invalid, call, cs>>

\* one release of Swapchain::destroy: image = 0 for a resource of the bundle,
\* image = i for a resource of the i-th image
Rel(res, i) == [res |-> res, image |-> i]

\* the for loop over self.images: framebuffer, image view, command buffer
RECURSIVE ImageReleases(_, _)
ImageReleases(i, n) ==
    IF i > n THEN << >>
    ELSE <<Rel("framebuffer", i), Rel("image_view", i), Rel("command_buffer", i)>>
             \o ImageReleases(i + 1, n)

ReleaseOrder_shadersFirst(n) ==
    <<Rel("vertex_buffer_memory", 0), Rel("vertex_buffer", 0)>>
      \o ImageReleases(1, n)
      \o <<Rel("pipeline", 0), Rel("pipeline_layout", 0),
           Rel("vertex_shader_module", 0), Rel("fragment_shader_module", 0),
           Rel("render_pass", 0), Rel("swapchain", 0)>>

\* the releases of Swapchain::destroy of a bundle of n images, in the order
\* of its statements
ReleaseOrder(n) ==
    <<Rel("vertex_buffer_memory", 0), Rel("vertex_buffer", 0)>>
      \o ImageReleases(1, n)
      \o <<Rel("pipeline", 0), Rel("pipeline_layout", 0), Rel("render_pass", 0),
           Rel("vertex_shader_module", 0), Rel("fragment_shader_module", 0),
           Rel("swapchain", 0)>>

\* the releases of Swapchain::destroy after the idle wait, and Ok(())
ScRelease ==
    /\ pc = "sc_release"
    /\ bundle_live' = FALSE
    /\ teardown' = [teardown EXCEPT !.released = TRUE,
                                    !.order = ReleaseOrder(teardown.n_images)]
    /\ log' = ShutdownLog("swapchain")
    /\ DestroyReturn(Ok)
    /\ UNCHANGED <<should_close, sc_ctx, sc_handles, images,
                   current_frame, gpu, image_index, inflight_frames, ctx_live,
                   used, nDraw, nAdvance, invalid, call, cs>>

\* ---------------------------------------------------------- Vulkan::destroy
\* Drop for Game: vulkan.destroy(); first the in-flight frames are drained
\* and destroyed
VkDestroyFrames ==
    /\ pc = "drop"
    /\ inflight_frames' = << >>
    /\ log' = Append(log, "inflight_frames")
    /\ call' = [NoCall EXCEPT !.op = "destroy"]
    /\ teardown' = NoTeardown
    /\ pc' = "destroy_swapchain"
    /\ UNCHANGED <<ret, should_close, sc_ctx, sc_handles, images, invalid,
                   bundle_live, current_frame, gpu, image_index, ctx_live,
                   used, nDraw, nAdvance, cs>>

\* self.sc_ctx.take().map(|sc| sc.destroy(&self.ctx)): the bundle, if any, is
\* taken and destroyed after the frame slots
VkDestroySwapchain ==
    /\ pc = "destroy_swapchain"
    /\ IF sc_ctx = "Some"
         THEN DestroySwapchain("shutdown")
         ELSE /\ pc' = "destroy_ctx"
              /\ UNCHANGED <<sc_ctx, sc_handles, images, invalid, teardown>>
    /\ UNCHANGED <<ret, should_close, bundle_live, current_frame,
                   gpu, inflight_frames, ctx_live, log, image_index, used,
                   nDraw, nAdvance, call, cs>>

\* the releases of the device context; the debug messenger exists only in a
\* build with validation, and its release is the only one that can fail:
\* `?` then returns before destroy_instance
ContextReleases(debugger, messenger_ok) ==
    <<"command_pool", "device", "surface">>
      \o (IF ~debugger THEN <<"instance">>
          ELSE IF messenger_ok THEN <<"debugger", "instance">>
          ELSE << >>)

\* destroy_command_pool, destroy_device, destroy_surface_khr,
\* destroy_debug_utils_messenger_ext, destroy_instance
VkDestroyCtx ==
    /\ pc = "destroy_ctx"
    /\ ctx_live' = FALSE
    /\ \E debugger \in BOOLEAN, messenger_ok \in BOOLEAN :
         log' = log \o ContextReleases(debugger, messenger_ok)
    /\ pc' = "done"
    /\ UNCHANGED <<ret, should_close, sc_ctx, sc_handles, images,
                   bundle_live, current_frame, gpu, image_index,
                   inflight_frames, teardown, used, nDraw, nAdvance, invalid,
                   call, cs>>

\* ------------------------------------------------------------------ the GPU
\* the presentation engine hands over the acquired image: the semaphore given
\* to acquire_next_image_khr becomes signaled
AcquireSignal ==
    /\ ctx_live
    /\ \E h \in Semaphores :
         /\ semaphore[h].state = "pending"
         /\ semaphore' = [semaphore EXCEPT ![h].state = "signaled"]
    /\ UNCHANGED <<pc, ret, should_close, sc_ctx, sc_handles,
                   images, bundle_live, current_frame, fence, pending, presents,
                   image_index, inflight_frames, ctx_live, teardown, log, used,
                   nDraw, nAdvance, invalid, call, cs>>

\* a submitted batch reaches its wait stage (COLOR_ATTACHMENT_OUTPUT): it
\* goes on once its wait semaphore is signaled, which unsignals the semaphore
GpuStart ==
    /\ ctx_live
    /\ \E p \in pending :
         /\ p.stage = "queued"
         /\ semaphore[p.wait].state = "signaled"
         /\ pending' = (pending \ {p}) \cup {[p EXCEPT !.stage = "running"]}
         /\ semaphore' = [semaphore EXCEPT ![p.wait] = Unsignaled]
    /\ UNCHANGED <<pc, ret, should_close, sc_ctx, sc_handles,
                   images, bundle_live, current_frame, fence, presents,
                   image_index, inflight_frames, ctx_live, teardown, log, used,
                   nDraw, nAdvance, invalid, call, cs>>

\* the signal of batch p meets a semaphore that still holds the signal of an
\* earlier batch, which a queued present request has yet to wait for: the
\* outcome is undefined; either the two signals become one and the request
\* stays queued, or the request is served by the earlier signal
SignalOverrun(p) ==
    IF semaphore[p.signal].state = "signaled"
      THEN {{}} \cup {{q} : q \in {r \in presents : r.wait = p.signal /\ r.id < p.id}}
      ELSE {{}}

\* a submitted batch completes: its signal semaphore and its fence become
\* signaled; the signal operations of the submissions to one queue happen in
\* submission order
GpuRetire ==
    /\ ctx_live
    /\ \E p \in pending :
         /\ p.stage = "running"
         /\ \A o \in pending : o.id >= p.id
         /\ pending' = pending \ {p}
         /\ fence' = [fence EXCEPT ![FenceSlot(p.fence)] = TRUE]
         /\ semaphore' = [semaphore EXCEPT ![p.signal] =
                             [state |-> "signaled", src |-> "submit", id |-> p.id]]
         /\ \E served \in SignalOverrun(p) : presents' = presents \ served
    /\ UNCHANGED <<pc, ret, should_close, sc_ctx, sc_handles,
                   images, bundle_live, current_frame, image_index,
                   inflight_frames, ctx_live, teardown, log, used, nDraw,
                   nAdvance, invalid, call, cs>>

\* a present request goes on once its wait semaphore is signaled, which
\* unsignals the semaphore; the requests of the present queue are processed
\* in the order they were queued
PresentExecute ==
    /\ ctx_live
    /\ \E q \in presents :
         /\ semaphore[q.wait].state = "signaled"
         /\ \A o \in presents : o.id >= q.id
         /\ presents' = presents \ {q}
         /\ semaphore' = [semaphore EXCEPT ![q.wait] = Unsignaled]
    /\ UNCHANGED <<pc, ret, should_close, sc_ctx, sc_handles,
                   images, bundle_live, current_frame, fence, pending,
                   image_index, inflight_frames, ctx_live, teardown, log, used,
                   nDraw, nAdvance, invalid, call, cs>>

Next ==
    \/ LoopIter
    \/ LoopExit
    \/ EventClose
    \/ OnFramebufferChanged
    \/ DrawFrameCall
    \/ Unwrap
    \/ WaitIdle
    \/ DfCreate
    \/ DfWaitFrame
    \/ DfAcquire
    \/ DfWaitImage
    \/ DfReset
    \/ DfSubmit
    \/ DfPresent
    \/ ScWaitIdle
    \/ ScRelease
    \/ VkDestroyFrames
    \/ VkDestroySwapchain
    \/ VkDestroyCtx
    \/ AcquireSignal
    \/ GpuStart
    \/ GpuRetire
    \/ PresentExecute

Spec == Init /\ [][Next]_vars

TypeOK ==
    /\ sc_ctx \in {"None", "Some"}
    /\ Len(images) <= MaxImages
    /\ \A i \in 1..Len(images) : images[i] \in {NULL_HANDLE} \cup {InFlightFence(s) : s \in Slots}
    /\ fence \in [Slots -> BOOLEAN]
    /\ nDraw \in 0..MaxDraws
    /\ \A h \in Semaphores : semaphore[h].state \in {"unsignaled", "pending", "signaled"}

\* =================================================================== claims
DrawFrameReturned == pc = "returned" /\ call.op = "draw_frame"

\* C1: in every reachable state the number of queue submissions that were
\* submitted and have not yet retired on the GPU is at most
\* MAX_FRAMES_IN_FLIGHT, whatever the number of swapchain images is.
C1_InFlightBound == Cardinality(pending) <= MAX_FRAMES_IN_FLIGHT

\* the throttle is in use: both slots are in flight, the bundle has more
\* images than slots and draw_frame is blocked on the current slot's gate
C1_Witness ==
    /\ pc = "df_wait_frame"
    /\ Cardinality(pending) = MAX_FRAMES_IN_FLIGHT
    /\ Len(images) > MAX_FRAMES_IN_FLIGHT
    /\ ~fence[current_frame]

\* C2: draw_frame never submits an image's command buffer while an earlier
\* submission of the same command buffer is still pending, and from the
\* image-gate step on the image's back-reference is the current slot's gate.
C2_NoResubmitWhilePending ==
    /\ pc = "df_submit" => \A p \in pending : p.image # image_index
    /\ pc \in {"df_reset", "df_submit", "df_present"} =>
           images[image_index + 1] = InFlightFence(current_frame)

\* about to submit an image that was last guarded by the other slot's gate
C2_Witness ==
    /\ pc = "df_submit"
    /\ call.prev_gate \notin {NULL_HANDLE, InFlightFence(current_frame)}
    /\ Len(images) >= MAX_FRAMES_IN_FLIGHT

\* C3: a step that releases the resources of a bundle is taken only after
\* the device-idle wait of the same teardown succeeded, and no submission is
\* pending on the GPU at that step.
C3_ReleaseAfterIdle ==
    [][(bundle_live /\ ~bundle_live') => (teardown.idle_ok /\ pending = {})]_vars

\* a bundle that had a submission was released on the present-outdated path
C3_Witness ==
    /\ teardown.by = "present"
    /\ teardown.released
    /\ ~bundle_live

\* C4 as stated: when acquisition reports outdated, draw_frame returns
\* success, holds no bundle after the call and the next call creates one
\* before acquiring.
C4_Original ==
    /\ (DrawFrameReturned /\ call.drv_step = "acquire"
            /\ call.drv_err = ERROR_OUT_OF_DATE_KHR) =>
           (ret = Ok /\ sc_ctx = "None")
    /\ (pc = "df_acquire" /\ "acquire" \in call.invalidated) =>
           (call.created /\ sc_ctx = "Some")

\* C4 amended: when acquisition reports outdated, the scheduler holds no
\* bundle after the call; draw_frame returns success if the device-idle wait
\* of the teardown succeeded and returns that wait's error otherwise; the
\* next draw_frame call creates a new bundle before acquiring.
C4_AcquireOutdated ==
    /\ (DrawFrameReturned /\ call.drv_step = "acquire"
            /\ call.drv_err = ERROR_OUT_OF_DATE_KHR) =>
           /\ sc_ctx = "None"
           /\ teardown.by = "acquire"
           /\ IF teardown.idle_ok THEN ret = Ok ELSE ret \in FenceErrors
    /\ (pc = "df_acquire" /\ "acquire" \in call.invalidated) =>
           (call.created /\ sc_ctx = "Some")

\* the call after an acquire-outdated call has rebuilt and is at its acquire
C4_Witness ==
    /\ pc = "df_acquire"
    /\ call.invalidated = {"acquire"}
    /\ call.created

\* C5 as stated: when presentation reports outdated, draw_frame returns
\* success, holds no bundle, current_frame is unchanged by the call and the
\* next call creates a bundle.
C5_Original ==
    /\ (DrawFrameReturned /\ call.drv_step = "present"
            /\ call.drv_err = ERROR_OUT_OF_DATE_KHR) =>
           (ret = Ok /\ sc_ctx = "None" /\ current_frame = call.cf_entry)
    /\ (pc = "df_acquire" /\ "present" \in call.invalidated) =>
           (call.created /\ sc_ctx = "Some")

\* C5 amended: when presentation reports outdated, the scheduler holds no
\* bundle after the call and current_frame is unchanged by the call;
\* draw_frame returns success if the device-idle wait of the teardown
\* succeeded and returns that wait's error otherwise; the next draw_frame
\* call creates a new bundle.
C5_PresentOutdated ==
    /\ (DrawFrameReturned /\ call.drv_step = "present"
            /\ call.drv_err = ERROR_OUT_OF_DATE_KHR) =>
           /\ sc_ctx = "None"
           /\ current_frame = call.cf_entry
           /\ teardown.by = "present"
           /\ IF teardown.idle_ok THEN ret = Ok ELSE ret \in FenceErrors
    /\ (pc = "df_acquire" /\ "present" \in call.invalidated) =>
           (call.created /\ sc_ctx = "Some")

\* a present-outdated call on slot 1 returned success with the slot kept
C5_Witness ==
    /\ DrawFrameReturned
    /\ call.outdated = "present"
    /\ ret = Ok
    /\ call.cf_entry = 1
    /\ current_frame = 1

\* C6: a draw_frame call that returns success without the outdated path
\* moves current_frame to (current_frame + 1) mod MAX_FRAMES_IN_FLIGHT;
\* after k such calls current_frame = k mod MAX_FRAMES_IN_FLIGHT; and
\* current_frame is always in [0, MAX_FRAMES_IN_FLIGHT).
C6_FrameCounter ==
    /\ current_frame \in Slots
    /\ current_frame = nAdvance % MAX_FRAMES_IN_FLIGHT
    /\ (DrawFrameReturned /\ ret = Ok /\ call.outdated = "none") =>
           current_frame = (call.cf_entry + 1) % MAX_FRAMES_IN_FLIGHT

\* the counter wrapped and advanced again
C6_Witness ==
    /\ DrawFrameReturned
    /\ ret = Ok
    /\ nAdvance = 3
    /\ current_frame = 1

\* C7: a slot's gate is signaled as long as the slot was never used for a
\* submission, and in the first MAX_FRAMES_IN_FLIGHT draw_frame calls the
\* current slot's gate is signaled when draw_frame waits on it.
C7_GateCreatedSignaled ==
    /\ \A s \in Slots : ~used[s] => fence[s]
    /\ (pc = "df_wait_frame" /\ nDraw <= MAX_FRAMES_IN_FLIGHT) =>
           fence[current_frame]

\* the second call waits on slot 1's never used gate while slot 0's
\* submission is still in flight
C7_Witness ==
    /\ pc = "df_wait_frame"
    /\ current_frame = 1
    /\ ~used[1]
    /\ pending # {}

\* C8: when a gate wait, the acquire, the gate reset, the submit or the
\* present fails with a driver error other than surface-outdated, draw_frame
\* returns that error, keeps the bundle and does not advance current_frame.
C8_FatalErrorPropagates ==
    (/\ DrawFrameReturned
     /\ call.drv_step \in {"wait_frame", "acquire", "wait_image", "reset",
                           "submit", "present"}
     /\ call.drv_err # ERROR_OUT_OF_DATE_KHR) =>
        /\ ret = call.drv_err
        /\ ret # Ok
        /\ sc_ctx = "Some"
        /\ bundle_live
        /\ current_frame = call.cf_entry

\* the submit failed on slot 1 after the gate was reset
C8_Witness ==
    /\ DrawFrameReturned
    /\ call.drv_step = "submit"
    /\ ret = ERROR_DEVICE_LOST
    /\ current_frame = 1
    /\ ~fence[1]

OnFramebufferChangedReturned == pc = "returned" /\ call.op = "on_framebuffer_changed"

\* C10 as stated: a resize notification tears an existing bundle down after
\* a device-idle wait, leaves no bundle, leaves current_frame and the frame
\* slots unchanged and returns success.
C10_Original ==
    OnFramebufferChangedReturned =>
        /\ ret = Ok
        /\ sc_ctx = "None"
        /\ current_frame = call.cf_entry
        /\ inflight_frames = FrameRing
        /\ call.had_bundle => (teardown.idle_ok /\ teardown.released)

\* C10 amended: after a resize notification the scheduler holds no bundle
\* and current_frame and the frame slots are unchanged; if a bundle existed
\* it was taken and, when the device-idle wait succeeded, released and the
\* call returns success, while a failed wait is returned as the error with
\* nothing released; if no bundle existed the call changes nothing and
\* returns success.
C10_ResizeNotification ==
    /\ [](OnFramebufferChangedReturned =>
            /\ sc_ctx = "None"
            /\ current_frame = call.cf_entry
            /\ inflight_frames = FrameRing
            /\ IF call.had_bundle
                 THEN /\ teardown.by = "resize"
                      /\ IF teardown.idle_ok
                           THEN ret = Ok /\ teardown.released /\ ~bundle_live
                           ELSE ret \in FenceErrors /\ ~teardown.released
                                /\ bundle_live
                 ELSE ret = Ok)
    /\ [][(pc = "events" /\ sc_ctx = "None"
              /\ call'.op = "on_framebuffer_changed" /\ pc' = "returned") =>
            (ret' = Ok /\ UNCHANGED sched)]_vars

\* a resize notification released a bundle that had presented frames
C10_Witness ==
    /\ OnFramebufferChangedReturned
    /\ call.had_bundle
    /\ teardown.released
    /\ ret = Ok
    /\ nAdvance > 0

\* the names of the sub-steps of Swapchain::new
CreateStepSet == {CreateSteps[k] : k \in 1..Len(CreateSteps)}

\* C11: a draw_frame call entered without a bundle creates one before any
\* gate wait or acquire; if a sub-step of the creation fails the call
\* returns that error after that one step, the scheduler holds no bundle, no
\* gate was waited on or reset and current_frame is unchanged, so that a
\* later call starts with the creation again.
C11_CreateFirst ==
    /\ (call.op = "draw_frame" /\ ~call.had_bundle /\ Len(call.trace) > 0) =>
           /\ call.trace[1] \in CreateStepSet \cup {"create"}
           /\ Len(call.trace) > 1 => (call.trace[1] = "create" /\ call.created)
    /\ (call.op = "draw_frame" /\ pc \in {"df_wait_frame", "df_acquire"}) =>
           sc_ctx = "Some"
    /\ (DrawFrameReturned /\ call.drv_step \in CreateStepSet) =>
           /\ ret = call.drv_err
           /\ ret # Ok
           /\ ~call.had_bundle
           /\ sc_ctx = "None"
           /\ images = << >>
           /\ call.trace = <<call.drv_step>>
           /\ current_frame = call.cf_entry
    /\ (call.op = "draw_frame" /\ pc = "df_create") => sc_ctx = "None"

\* the creation after a teardown fails at the pipeline: the call returns the
\* error and there is no bundle
C11_Witness ==
    /\ DrawFrameReturned
    /\ call.drv_step = "create_graphics_pipeline"
    /\ ret = ERROR_DEVICE_LOST
    /\ nDraw > 1
    /\ current_frame = 1

\* position of the first occurrence of entry e in the log, 0 if there is none
RECURSIVE LogIndex(_, _)
LogIndex(e, i) ==
    IF i > Len(log) THEN 0
    ELSE IF log[i] = e THEN i
    ELSE LogIndex(e, i + 1)

\* entry a is in the log and comes before entry b whenever b is in the log
LogBefore(a, b) ==
    LogIndex(b, 1) # 0 => (LogIndex(a, 1) # 0 /\ LogIndex(a, 1) < LogIndex(b, 1))

\* C12: in every execution that reaches Vulkan::destroy, after the normal
\* end of the render loop or after a draw_frame error, a wait for idle comes
\* first, then the destruction of all frame slots, then the destruction of
\* the bundle if there is one, then the destruction of the device context.
C12_ShutdownOrder ==
    /\ LogBefore("wait_idle", "inflight_frames")
    /\ LogBefore("inflight_frames", "device_wait_idle")
    /\ LogBefore("inflight_frames", "swapchain")
    /\ LogBefore("inflight_frames", "command_pool")
    /\ (LogIndex("swapchain", 1) # 0) => LogBefore("swapchain", "command_pool")

\* C13: when Vulkan::destroy destroys the logical device every frame slot is
\* destroyed, every resource of a bundle is released and the device is idle;
\* device, surface, debug messenger and instance are released in that order.
C13_DeviceDestroyedLast ==
    ~ctx_live =>
        /\ inflight_frames = << >>
        /\ ~bundle_live
        /\ pending = {}
        /\ presents = {}
        /\ LogBefore("device", "surface")
        /\ LogBefore("surface", "debugger")
        /\ LogBefore("surface", "instance")
        /\ LogBefore("debugger", "instance") \/ LogIndex("debugger", 1) = 0

\* C14 as stated: Swapchain::destroy, after the device-idle wait, releases
\* vertex buffer, per-image resources, pipeline, shader modules, render pass
\* and last the swapchain handle, in that order.
C14_Original ==
    LET rank == [vertex_buffer_memory |-> 1, vertex_buffer |-> 1,
                 framebuffer |-> 2, image_view |-> 2, command_buffer |-> 2,
                 pipeline |-> 3, pipeline_layout |-> 3,
                 vertex_shader_module |-> 4, fragment_shader_module |-> 4,
                 render_pass |-> 5, swapchain |-> 6]
        order == teardown.order
    IN  teardown.released =>
          /\ teardown.idle_ok
          /\ Len(order) = 8 + 3 * teardown.n_images
          /\ \A i, j \in 1..Len(order) :
                 i < j => rank[order[i].res] <= rank[order[j].res]

\* C14 amended: Swapchain::destroy, after the device-idle wait, releases
\* vertex buffer, per-image resources, pipeline, render pass, shader modules
\* and last the swapchain handle, in that order: the render pass is released
\* before the shader modules, not after them.
C14_ReleaseOrder ==
    LET rank == [vertex_buffer_memory |-> 1, vertex_buffer |-> 1,
                 framebuffer |-> 2, image_view |-> 2, command_buffer |-> 2,
                 pipeline |-> 3, pipeline_layout |-> 3,
                 render_pass |-> 4,
                 vertex_shader_module |-> 5, fragment_shader_module |-> 5,
                 swapchain |-> 6]
        order == teardown.order
    IN  teardown.released =>
          /\ teardown.idle_ok
          /\ Len(order) = 8 + 3 * teardown.n_images
          /\ \A i, j \in 1..Len(order) :
                 i < j => rank[order[i].res] <= rank[order[j].res]
          /\ \A i \in 1..teardown.n_images :
                 \E k \in 1..Len(order) :
                     order[k] = Rel("framebuffer", i)

\* a bundle of several images was released by the present-outdated path
C14_Witness ==
    /\ teardown.released
    /\ teardown.by = "present"
    /\ teardown.n_images >= MAX_FRAMES_IN_FLIGHT
    /\ Len(teardown.order) > 8

\* the handles held by the frame slots
SlotHandles ==
    UNION {{inflight_frames[i].available_semaphore,
            inflight_frames[i].rendered_semaphore,
            inflight_frames[i].in_flight_fence} : i \in 1..Len(inflight_frames)}

\* C15: from Vulkan::new until Vulkan::destroy there are exactly
\* MAX_FRAMES_IN_FLIGHT frame slots, each with its own three handles, and no
\* step other than Vulkan::destroy changes a slot or a handle of it.
C15_SlotsFixed ==
    /\ [](call.op # "destroy" =>
            /\ Len(inflight_frames) = MAX_FRAMES_IN_FLIGHT
            /\ Cardinality(SlotHandles) = 3 * MAX_FRAMES_IN_FLIGHT
            /\ NULL_HANDLE \notin SlotHandles)
    /\ [][inflight_frames' # inflight_frames =>
            (pc = "drop" /\ call'.op = "destroy" /\ inflight_frames' = << >>)]_vars

\* the slots are the ones Vulkan::new built although a bundle was torn down
\* and both slots were used
C15_Witness ==
    /\ DrawFrameReturned
    /\ teardown.released
    /\ used[0] /\ used[1]
    /\ inflight_frames = FrameRing

\* the draw_frame call in progress has assigned the acquired image's fence
ImageFenceAssigned ==
    \/ pc \in {"df_reset", "df_submit", "df_present"}
    \/ \E k \in 1..Len(call.trace) : call.trace[k] = "reset"

\* C16: while a bundle exists, a draw_frame call that does not tear it down
\* changes nothing in it except the gate back-reference of the one image it
\* acquired: the bundle's handles, the number of images and every other
\* back-reference are what they were at entry (or at creation, if the call
\* created the bundle).
C16_BundleUntouched ==
    (call.op = "draw_frame" /\ call.outdated = "none"
        /\ (call.had_bundle \/ call.created)) =>
        LET before == IF call.had_bundle THEN call.images_entry
                      ELSE [i \in 1..Len(images) |-> NULL_HANDLE]
            touched == IF ImageFenceAssigned THEN {image_index + 1} ELSE {}
        IN  /\ sc_ctx = "Some"
            /\ bundle_live
            /\ call.had_bundle => sc_handles = call.handles_entry
            /\ Len(images) = Len(before)
            /\ \A i \in 1..Len(images) : i \notin touched => images[i] = before[i]
            /\ \A i \in touched :
                   images[i] = inflight_frames[call.cf_entry + 1].in_flight_fence

\* a frame was drawn on a bundle of three images that existed at entry: the
\* acquired image's back-reference changed and another image kept its own
C16_Witness ==
    /\ DrawFrameReturned
    /\ ret = Ok
    /\ call.had_bundle
    /\ call.presented
    /\ Len(images) > MAX_FRAMES_IN_FLIGHT
    /\ images[image_index + 1] # call.images_entry[image_index + 1]
    /\ \E i \in 1..Len(images) : i # image_index + 1 /\ images[i] # NULL_HANDLE

\* C17: within one frame slot the GPU passes the color-attachment-output
\* stage of the submission only after the acquire of the same call signaled
\* the slot's available-signal; the present request goes on only after its
\* submission completed and signaled the slot's rendered-signal; and the
\* completion of a submission signals the in-flight gate of the same slot.
C17_SlotOrdering ==
    [][/\ \A p \in pending :
            (p.stage = "queued" /\ [p EXCEPT !.stage = "running"] \in pending') =>
                /\ semaphore[AvailableSemaphore(p.slot)].state = "signaled"
                /\ semaphore[AvailableSemaphore(p.slot)].src = "acquire"
                /\ semaphore[AvailableSemaphore(p.slot)].id = p.id
       /\ \A q \in presents \ presents' :
                /\ semaphore[RenderedSemaphore(q.slot)].state = "signaled"
                /\ semaphore[RenderedSemaphore(q.slot)].src = "submit"
                /\ \A p \in pending : p.id # q.id
       /\ \A p \in pending :
            (p.stage = "running" /\ p \notin pending') =>
                /\ fence'[p.slot]
                /\ semaphore'[RenderedSemaphore(p.slot)].state = "signaled"
                /\ semaphore'[RenderedSemaphore(p.slot)].src = "submit"
                /\ semaphore'[RenderedSemaphore(p.slot)].id = p.id
      ]_vars

\* both slots went through the whole chain: acquired, rendered, retired and
\* presented, and nothing is left signaled or queued
C17_Witness ==
    /\ DrawFrameReturned
    /\ nAdvance >= MAX_FRAMES_IN_FLIGHT
    /\ used[0] /\ used[1]
    /\ pending = {}
    /\ presents = {}
    /\ \A h \in Semaphores : semaphore[h] = Unsignaled
    /\ \A s \in Slots : fence[s]

\* ================================================== create_swapchain: choices
\* The selections create_swapchain makes from what the driver reports.  They
\* are pure functions of the reported lists and capabilities, checked under
\* SelSpec, whose actions draw the reports and apply the functions.
MaxFormats == 2
MaxModes == 2
MaxExtent == 3
MaxImageCount == 3

\* u32::MAX (4294967295), the width of the "use the window size" extent; it
\* is represented by the largest integer of the model checker, above every
\* other extent of the model
U32_MAX == 2147483647

FORMAT_B8G8R8A8_SRGB == "FORMAT_B8G8R8A8_SRGB"
FORMAT_B8G8R8A8_UNORM == "FORMAT_B8G8R8A8_UNORM"
COLOR_SPACE_SRGB_NONLINEAR_KHR == "COLOR_SPACE_SRGB_NONLINEAR_KHR"
COLOR_SPACE_EXTENDED_SRGB_LINEAR_EXT == "COLOR_SPACE_EXTENDED_SRGB_LINEAR_EXT"
PRESENT_MODE_IMMEDIATE_KHR == "PRESENT_MODE_IMMEDIATE_KHR"
PRESENT_MODE_MAILBOX_KHR == "PRESENT_MODE_MAILBOX_KHR"
PRESENT_MODE_FIFO_KHR == "PRESENT_MODE_FIFO_KHR"

\* vk::SurfaceFormatKHR values a driver can report
SurfaceFormats ==
    [format : {FORMAT_B8G8R8A8_SRGB, FORMAT_B8G8R8A8_UNORM},
     colorSpace : {COLOR_SPACE_SRGB_NONLINEAR_KHR,
                   COLOR_SPACE_EXTENDED_SRGB_LINEAR_EXT}]
\* vk::PresentModeKHR values a driver can report
PresentModes ==
    {PRESENT_MODE_IMMEDIATE_KHR, PRESENT_MODE_MAILBOX_KHR, PRESENT_MODE_FIFO_KHR}

\* the Vec a get_physical_device_surface_*_khr call returns: at most n entries
SeqsUpTo(S, n) == UNION {[1..k -> S] : k \in 0..n}

\* Iterator::find: the index of the first entry from i on that satisfies the
\* test of good_format, 0 if there is none
RECURSIVE FindFormat(_, _)
FindFormat(formats, i) ==
    IF i > Len(formats) THEN 0
    ELSE IF /\ formats[i].format = FORMAT_B8G8R8A8_SRGB
            /\ formats[i].colorSpace = COLOR_SPACE_SRGB_NONLINEAR_KHR
         THEN i
    ELSE FindFormat(formats, i + 1)

NoFormat == [format |-> "none", colorSpace |-> "none"]

good_format_first(formats) ==
    IF Len(formats) > 0 THEN [err |-> Ok, val |-> formats[1]]
    ELSE [err |-> Other, val |-> NoFormat]

\* formats.iter().find(..).or_else(|| formats.iter().next()).ok_or_else(..)?
good_format(formats) ==
    IF FindFormat(formats, 1) # 0
      THEN [err |-> Ok, val |-> formats[FindFormat(formats, 1)]]
    ELSE IF Len(formats) > 0 THEN [err |-> Ok, val |-> formats[1]]
    ELSE [err |-> Other, val |-> NoFormat]

good_mode_fifo(modes) == PRESENT_MODE_FIFO_KHR

\* modes.iter().find(|mode| **mode == MAILBOX).unwrap_or(&FIFO)
good_mode(modes) ==
    IF \E i \in 1..Len(modes) : modes[i] = PRESENT_MODE_MAILBOX_KHR
      THEN PRESENT_MODE_MAILBOX_KHR
      ELSE PRESENT_MODE_FIFO_KHR

\* `as u32` of the i32 that get_framebuffer_size returns
AsU32(v) == IF v >= 0 THEN v ELSE v + U32_MAX + 1

clamp_upper(v, lo, hi) == IF v > hi THEN hi ELSE v

\* Ord::clamp (min <= max is its precondition)
clamp(v, lo, hi) == IF v < lo THEN lo ELSE IF v > hi THEN hi ELSE v

\* choose_swap_extent(caps, window)
choose_swap_extent(caps, window) ==
    IF caps.currentExtent.width # U32_MAX
      THEN [width |-> caps.currentExtent.width,
            height |-> caps.currentExtent.height]
      ELSE [width |-> clamp(AsU32(window.w), caps.minImageExtent.width,
                            caps.maxImageExtent.width),
            height |-> clamp(AsU32(window.h), caps.minImageExtent.height,
                             caps.maxImageExtent.height)]

\* extents a driver can report as currentExtent: a concrete size, or the
\* width and height of the "use the window size" value
Extents == [width : 1..MaxExtent, height : 1..MaxExtent]
CurrentExtents ==
    [width : (1..MaxExtent) \cup {U32_MAX}, height : (1..MaxExtent) \cup {U32_MAX}]

\* vk::SurfaceCapabilitiesKHR values a driver can report: minImageExtent is
\* not above maxImageExtent
Capabilities ==
    {c \in [currentExtent : CurrentExtents, minImageExtent : Extents,
            maxImageExtent : Extents] :
        /\ c.minImageExtent.width <= c.maxImageExtent.width
        /\ c.minImageExtent.height <= c.maxImageExtent.height}

\* sizes window.get_framebuffer_size() can return
WindowSizes == [w : 0..MaxExtent, h : 0..MaxExtent]

NoCaps ==
    [currentExtent |-> [width |-> 0, height |-> 0],
     minImageExtent |-> [width |-> 0, height |-> 0],
     maxImageExtent |-> [width |-> 0, height |-> 0]]

\* the record of one selection: which one, its inputs and its result
SelIdle ==
    [pc |-> "idle", formats |-> << >>, modes |-> << >>, caps |-> NoCaps,
     window |-> [w |-> 0, h |-> 0], err |-> Ok, good_format |-> NoFormat,
     good_mode |-> "none", extent |-> [width |-> 0, height |-> 0]]

\* the scheduler is as Vulkan::new leaves it and create_swapchain is entered
SelInit ==
    /\ pc = "create_swapchain"
    /\ ret = Ok
    /\ should_close = FALSE
    /\ sc_ctx = "None"
    /\ sc_handles = NULL_HANDLE
    /\ images = << >>
    /\ bundle_live = FALSE
    /\ current_frame = 0
    /\ fence = [s \in Slots |-> create_signaled_fence]
    /\ pending = {}
    /\ semaphore = [h \in Semaphores |-> Unsignaled]
    /\ presents = {}
    /\ image_index = 0
    /\ inflight_frames = FrameRing
    /\ ctx_live = TRUE
    /\ teardown = NoTeardown
    /\ log = << >>
    /\ used = [s \in Slots |-> FALSE]
    /\ nDraw = 0
    /\ nAdvance = 0
    /\ invalid = {}
    /\ call = NoCall
    /\ cs = SelIdle

\* everything but cs
notcs == <<pc, ret, should_close, sc_ctx, sc_handles, images, bundle_live,
           current_frame, fence, pending, semaphore, presents, image_index,
           inflight_frames, ctx_live, teardown, log, used, nDraw, nAdvance,
           invalid, call>>

\* get_physical_device_surface_formats_khr and the choice of good_format
SelFormat ==
    /\ cs.pc = "idle"
    /\ \E formats \in SeqsUpTo(SurfaceFormats, MaxFormats) :
         cs' = [SelIdle EXCEPT !.pc = "good_format", !.formats = formats,
                               !.err = good_format(formats).err,
                               !.good_format = good_format(formats).val]
    /\ UNCHANGED notcs

\* get_physical_device_surface_present_modes_khr and the choice of good_mode
SelMode ==
    /\ cs.pc = "idle"
    /\ \E modes \in SeqsUpTo(PresentModes, MaxModes) :
         cs' = [SelIdle EXCEPT !.pc = "good_mode", !.modes = modes,
                               !.good_mode = good_mode(modes)]
    /\ UNCHANGED notcs

\* get_physical_device_surface_capabilities_khr and choose_swap_extent
SelExtent ==
    /\ cs.pc = "idle"
    /\ \E caps \in Capabilities, window \in WindowSizes :
         cs' = [SelIdle EXCEPT !.pc = "extent", !.caps = caps,
                               !.window = window,
                               !.extent = choose_swap_extent(caps, window)]
    /\ UNCHANGED notcs

\* image counts a driver can report: minImageCount is at least one, and
\* maxImageCount is zero (no limit) or not below minImageCount
ImageCounts ==
    {c \in [minImageCount : 1..MaxImageCount, maxImageCount : 0..MaxImageCount] :
        c.maxImageCount = 0 \/ c.minImageCount <= c.maxImageCount}

image_count_uncapped(caps) == caps.minImageCount + 1

\* (capabilities.minImageCount + 1).min(capabilities.maxImageCount)
image_count(caps) ==
    IF caps.minImageCount + 1 <= caps.maxImageCount
      THEN caps.minImageCount + 1
      ELSE caps.maxImageCount

\* get_physical_device_surface_capabilities_khr and the choice of image_count
SelImageCount ==
    /\ cs.pc = "idle"
    /\ \E caps \in ImageCounts :
         cs' = [pc |-> "image_count", caps |-> caps,
                image_count |-> image_count(caps)]
    /\ UNCHANGED notcs

\* the next create_swapchain call
\* the operator & on unsigned integers
RECURSIVE BitAnd(_, _)
BitAnd(a, b) ==
    IF a = 0 \/ b = 0 THEN 0
    ELSE (a % 2) * (b % 2) + 2 * BitAnd(a \div 2, b \div 2)

\* 1 << i
RECURSIVE ShiftLeft1(_)
ShiftLeft1(i) == IF i = 0 THEN 1 ELSE 2 * ShiftLeft1(i - 1)

\* vk::MemoryPropertyFlags: DEVICE_LOCAL = 1, HOST_VISIBLE = 2,
\* HOST_COHERENT = 4
MEMORY_PROPERTY_DEVICE_LOCAL_BIT == 1
MEMORY_PROPERTY_HOST_VISIBLE_BIT == 2
MEMORY_PROPERTY_HOST_COHERENT_BIT == 4
MemoryPropertyFlags ==
    0..(MEMORY_PROPERTY_DEVICE_LOCAL_BIT + MEMORY_PROPERTY_HOST_VISIBLE_BIT
        + MEMORY_PROPERTY_HOST_COHERENT_BIT)

\* the flags create_vertex_buffer asks for
VertexBufferFlags ==
    MEMORY_PROPERTY_HOST_VISIBLE_BIT + MEMORY_PROPERTY_HOST_COHERENT_BIT

\* ctx.memory_properties: memoryTypes[0..memoryTypeCount), as the sequence of
\* their propertyFlags
MaxMemoryTypes == 2
MemoryTypes == SeqsUpTo(MemoryPropertyFlags, MaxMemoryTypes)

\* memory_requirements.memoryTypeBits: one bit per memory type
TypeFilters == 0..(ShiftLeft1(MaxMemoryTypes) - 1)

\* the loop of find_memory_type from index i on (indices start at 0)
RECURSIVE find_memory_type(_, _, _, _)
find_memory_type(memoryTypes, type_filter, flags, i) ==
    IF i >= Len(memoryTypes) THEN [err |-> Other, val |-> 0]
    ELSE IF /\ BitAnd(type_filter, ShiftLeft1(i)) # 0
            /\ BitAnd(memoryTypes[i + 1], flags) # 0
      THEN [err |-> Ok, val |-> i]
    ELSE find_memory_type(memoryTypes, type_filter, flags, i + 1)

\* create_vertex_buffer: find_memory_type(ctx, memoryTypeBits,
\* HOST_VISIBLE | HOST_COHERENT)?
SelMemoryType ==
    /\ cs.pc = "idle"
    /\ \E memoryTypes \in MemoryTypes, type_filter \in TypeFilters :
         cs' = [pc |-> "memory_type", memoryTypes |-> memoryTypes,
                type_filter |-> type_filter, flags |-> VertexBufferFlags,
                err |-> find_memory_type(memoryTypes, type_filter,
                                         VertexBufferFlags, 0).err,
                val |-> find_memory_type(memoryTypes, type_filter,
                                         VertexBufferFlags, 0).val]
    /\ UNCHANGED notcs

SelAgain ==
    /\ cs.pc # "idle"
    /\ cs' = SelIdle
    /\ UNCHANGED notcs

SelNext ==
    \/ SelFormat
    \/ SelMode
    \/ SelExtent
    \/ SelImageCount
    \/ SelMemoryType
    \/ SelAgain

SelSpec == SelInit /\ [][SelNext]_vars

\* C18: for a non-empty list of supported formats the chosen format is the
\* pair (B8G8R8A8_SRGB, SRGB_NONLINEAR) if the list contains it at any
\* position, and the first entry of the list otherwise; for an empty list
\* create_swapchain fails with an error.
C18_FormatSelection ==
    cs.pc = "good_format" =>
        LET f == cs.formats
            preferred == [format |-> FORMAT_B8G8R8A8_SRGB,
                          colorSpace |-> COLOR_SPACE_SRGB_NONLINEAR_KHR]
        IN  /\ Len(f) = 0 => cs.err = Other
            /\ Len(f) > 0 =>
                 /\ cs.err = Ok
                 /\ cs.good_format =
                        IF \E i \in 1..Len(f) : f[i] = preferred
                          THEN preferred ELSE f[1]

\* the preferred pair is reported second, after a format that shares its
\* format but not its color space, and is chosen
C18_Witness ==
    /\ cs.pc = "good_format"
    /\ Len(cs.formats) = 2
    /\ cs.formats[1] = [format |-> FORMAT_B8G8R8A8_SRGB,
                        colorSpace |-> COLOR_SPACE_EXTENDED_SRGB_LINEAR_EXT]
    /\ cs.formats[2] = [format |-> FORMAT_B8G8R8A8_SRGB,
                        colorSpace |-> COLOR_SPACE_SRGB_NONLINEAR_KHR]
    /\ cs.good_format = cs.formats[2]

\* C19 as stated: MAILBOX is chosen if the list of supported present modes
\* contains it and FIFO otherwise, and the chosen mode is always a member of
\* the supported list.
C19_Original ==
    cs.pc = "good_mode" =>
        LET supported == {cs.modes[i] : i \in 1..Len(cs.modes)}
        IN  /\ cs.good_mode =
                   IF PRESENT_MODE_MAILBOX_KHR \in supported
                     THEN PRESENT_MODE_MAILBOX_KHR ELSE PRESENT_MODE_FIFO_KHR
            /\ cs.good_mode \in supported

\* C19 amended: MAILBOX is chosen if the list of supported present modes
\* contains it and FIFO otherwise; the chosen mode is a member of the
\* supported list whenever the list contains MAILBOX or FIFO, and is FIFO
\* without being a member when the list contains neither.
C19_ModeSelection ==
    cs.pc = "good_mode" =>
        LET supported == {cs.modes[i] : i \in 1..Len(cs.modes)}
        IN  /\ cs.good_mode =
                   IF PRESENT_MODE_MAILBOX_KHR \in supported
                     THEN PRESENT_MODE_MAILBOX_KHR ELSE PRESENT_MODE_FIFO_KHR
            /\ (supported \cap {PRESENT_MODE_MAILBOX_KHR, PRESENT_MODE_FIFO_KHR} # {})
                   => cs.good_mode \in supported
            /\ (supported \cap {PRESENT_MODE_MAILBOX_KHR, PRESENT_MODE_FIFO_KHR} = {})
                   => (cs.good_mode = PRESENT_MODE_FIFO_KHR /\ cs.good_mode \notin supported)

\* the list [FIFO, MAILBOX] selects MAILBOX
C19_Witness ==
    /\ cs.pc = "good_mode"
    /\ cs.modes = <<PRESENT_MODE_FIFO_KHR, PRESENT_MODE_MAILBOX_KHR>>
    /\ cs.good_mode = PRESENT_MODE_MAILBOX_KHR

\* C20: when the capabilities report the "use the window size" current
\* extent the chosen width and height are the window framebuffer width and
\* height, each clamped to [minImageExtent, maxImageExtent]; when they report
\* a concrete current extent that extent is chosen unchanged.
C20_ExtentSelection ==
    cs.pc = "extent" =>
        LET cur == cs.caps.currentExtent
            lo == cs.caps.minImageExtent
            hi == cs.caps.maxImageExtent
            Lower(a, b) == IF a < b THEN a ELSE b
            Higher(a, b) == IF a > b THEN a ELSE b
        IN  /\ (cur.width = U32_MAX /\ cur.height = U32_MAX) =>
                 /\ cs.extent.width = Higher(lo.width, Lower(cs.window.w, hi.width))
                 /\ cs.extent.height = Higher(lo.height, Lower(cs.window.h, hi.height))
            /\ (cur.width # U32_MAX /\ cur.height # U32_MAX) => cs.extent = cur

\* the window is wider than the largest and lower than the smallest extent
\* of the surface: the width is clamped down and the height is clamped up
C20_Witness ==
    /\ cs.pc = "extent"
    /\ cs.caps.currentExtent = [width |-> U32_MAX, height |-> U32_MAX]
    /\ cs.window.w > cs.caps.maxImageExtent.width
    /\ cs.window.h < cs.caps.minImageExtent.height
    /\ cs.extent = [width |-> cs.caps.maxImageExtent.width,
                    height |-> cs.caps.minImageExtent.height]

\* C21: the image count create_swapchain requests is minImageCount + 1
\* capped at maxImageCount: it equals min(minImageCount + 1, maxImageCount)
\* for every capabilities value.
C21_ImageCount ==
    cs.pc = "image_count" =>
        /\ cs.image_count <= cs.caps.minImageCount + 1
        /\ cs.image_count <= cs.caps.maxImageCount
        /\ cs.image_count \in {cs.caps.minImageCount + 1, cs.caps.maxImageCount}

\* the cap binds: the surface allows no more than its minimum
C21_Witness ==
    /\ cs.pc = "image_count"
    /\ cs.caps.minImageCount = 2
    /\ cs.caps.maxImageCount = 2
    /\ cs.image_count = 2

\* ============================================================== Vulkan::new
\* The selections Vulkan::new makes from what the driver reports, before the
\* scheduler exists: create_instance, find_physical_device and
\* find_queue_families.  They are checked under SetupSpec, whose actions draw
\* the reports and apply the functions.
MaxDevices == 2
MaxFamilies == 2

\* vk::PhysicalDeviceType: OTHER = 0, INTEGRATED_GPU = 1, DISCRETE_GPU = 2,
\* VIRTUAL_GPU = 3, CPU = 4
PHYSICAL_DEVICE_TYPE_DISCRETE_GPU == 2
PHYSICAL_DEVICE_TYPE_CPU == 4
PhysicalDeviceTypes == 0..PHYSICAL_DEVICE_TYPE_CPU

\* vk::QueueFlags: GRAPHICS = 1, COMPUTE = 2
QUEUE_GRAPHICS_BIT == 1
QUEUE_COMPUTE_BIT == 2
QueueFlags == 0..(QUEUE_GRAPHICS_BIT + QUEUE_COMPUTE_BIT)

ERROR_OUT_OF_HOST_MEMORY == "ERROR_OUT_OF_HOST_MEMORY"

\* names of device extensions, instance layers and instance extensions
DeviceExtensions == {"VK_KHR_swapchain", "VK_KHR_maintenance1"}
InstanceLayers == {"VK_LAYER_KHRONOS_validation", "VK_LAYER_LUNARG_monitor"}
InstanceExtensions == {"VK_EXT_debug_utils", "VK_KHR_surface"}

\* what the driver reports of one physical device: its type, its
\* extensions, and whether enumerate_device_extension_properties succeeds
PhysicalDevices ==
    [deviceType : PhysicalDeviceTypes, extensions : SUBSET DeviceExtensions,
     enumerate_ok : BOOLEAN]

\* check_physical_device_extensions: every required name is removed by a
\* reported one
check_physical_device_extensions(device, required) ==
    IF ~device.enumerate_ok THEN [err |-> ERROR_OUT_OF_HOST_MEMORY, val |-> FALSE]
    ELSE [err |-> Ok, val |-> (required \ device.extensions) = {}]

\* the test of find_physical_device on the device type
IsDiscrete(deviceType) == BitAnd(deviceType, PHYSICAL_DEVICE_TYPE_DISCRETE_GPU) # 0

\* the loop of find_physical_device from the i-th device on, and ok_or_else
RECURSIVE find_physical_device(_, _, _)
find_physical_device(devices, required, i) ==
    IF i > Len(devices) THEN [err |-> Other, val |-> 0]
    ELSE IF ~IsDiscrete(devices[i].deviceType)
      THEN find_physical_device(devices, required, i + 1)
    ELSE IF check_physical_device_extensions(devices[i], required).err # Ok
      THEN [err |-> check_physical_device_extensions(devices[i], required).err,
            val |-> 0]
    ELSE IF check_physical_device_extensions(devices[i], required).val
      THEN [err |-> Ok, val |-> i]
    ELSE find_physical_device(devices, required, i + 1)

\* what the driver reports of one queue family: its flags, and the answer of
\* get_physical_device_surface_support_khr
QueueFamilies ==
    [queueFlags : QueueFlags, support : {"true", "false", "error"}]

\* props.iter().enumerate().find(graphics bit): the position of the first
\* family from i on with the graphics bit, 0 if there is none
RECURSIVE FirstGraphics(_, _)
FirstGraphics(props, i) ==
    IF i > Len(props) THEN 0
    ELSE IF BitAnd(props[i].queueFlags, QUEUE_GRAPHICS_BIT) # 0 THEN i
    ELSE FirstGraphics(props, i + 1)

CanPresent_lenient(family) == family.support # "false"

\* get_physical_device_surface_support_khr(..).unwrap_or(false)
CanPresent(family) == family.support = "true"

\* props.iter().enumerate().find(surface support .unwrap_or(false)): the
\* position of the first family from i on that can present, 0 if none
RECURSIVE FirstPresent(_, _)
FirstPresent(props, i) ==
    IF i > Len(props) THEN 0
    ELSE IF CanPresent(props[i]) THEN i
    ELSE FirstPresent(props, i + 1)

NoFamilies == [graphics |-> 0, present |-> 0]

\* find_queue_families: family indices start at 0
find_queue_families(props) ==
    IF FirstGraphics(props, 1) = 0 THEN [err |-> Other, val |-> NoFamilies]
    ELSE IF FirstPresent(props, 1) = 0 THEN [err |-> Other, val |-> NoFamilies]
    ELSE [err |-> Ok,
          val |-> [graphics |-> FirstGraphics(props, 1) - 1,
                   present |-> FirstPresent(props, 1) - 1]]

\* what the driver reports to create_instance
InstanceReports ==
    [layers : SUBSET InstanceLayers, layers_ok : BOOLEAN,
     extensions : SUBSET InstanceExtensions, extensions_ok : BOOLEAN,
     create_ok : BOOLEAN]

\* check_required_layers / check_required_extensions: the enumeration, then
\* every required name must be among the reported ones
check_required(required, reported, enumerate_ok) ==
    IF ~enumerate_ok THEN ERROR_OUT_OF_HOST_MEMORY
    ELSE IF required \ reported # {} THEN Other
    ELSE Ok

\* the layers create_instance checks, None if it checks none
CheckedLayers(required_layers, debug) ==
    IF debug
      THEN [some |-> TRUE, val |-> required_layers \cup {"VK_LAYER_KHRONOS_validation"}]
      ELSE [some |-> FALSE, val |-> {}]

\* the extensions create_instance checks
CheckedExtensions(required_extensions, debug) ==
    IF debug THEN required_extensions \cup {"VK_EXT_debug_utils"}
    ELSE required_extensions

\* create_instance: the checks with `?`, then ep.create_instance
create_instance(required_layers, required_extensions, debug, report) ==
    LET layers == CheckedLayers(required_layers, debug)
        layers_result ==
            IF layers.some
              THEN check_required(layers.val, report.layers, report.layers_ok)
              ELSE Ok
        extensions_result ==
            check_required(CheckedExtensions(required_extensions, debug),
                           report.extensions, report.extensions_ok)
    IN  IF layers_result # Ok THEN [err |-> layers_result, created |-> FALSE]
        ELSE IF extensions_result # Ok
          THEN [err |-> extensions_result, created |-> FALSE]
        ELSE IF ~report.create_ok
          THEN [err |-> ERROR_OUT_OF_HOST_MEMORY, created |-> FALSE]
        ELSE [err |-> Ok, created |-> TRUE]

SetupIdle == [pc |-> "idle"]

\* Vulkan::new is entered: there is no scheduler yet
SetupInit ==
    /\ pc = "Vulkan::new"
    /\ ret = Ok
    /\ should_close = FALSE
    /\ sc_ctx = "None"
    /\ sc_handles = NULL_HANDLE
    /\ images = << >>
    /\ bundle_live = FALSE
    /\ current_frame = 0
    /\ fence = [s \in Slots |-> create_signaled_fence]
    /\ pending = {}
    /\ semaphore = [h \in Semaphores |-> Unsignaled]
    /\ presents = {}
    /\ image_index = 0
    /\ inflight_frames = FrameRing
    /\ ctx_live = TRUE
    /\ teardown = NoTeardown
    /\ log = << >>
    /\ used = [s \in Slots |-> FALSE]
    /\ nDraw = 0
    /\ nAdvance = 0
    /\ invalid = {}
    /\ call = NoCall
    /\ cs = SetupIdle

\* Self::create_instance(&ep, init.req_layers, init.req_ext, init.debug)?
SetupInstance ==
    /\ cs.pc = "idle"
    /\ \E required_layers \in SUBSET InstanceLayers,
          required_extensions \in SUBSET InstanceExtensions,
          debug \in BOOLEAN, report \in InstanceReports :
         cs' = [pc |-> "instance", required_layers |-> required_layers,
                required_extensions |-> required_extensions, debug |-> debug,
                report |-> report,
                err |-> create_instance(required_layers, required_extensions,
                                        debug, report).err,
                created |-> create_instance(required_layers, required_extensions,
                                            debug, report).created]
    /\ UNCHANGED notcs

\* Self::find_physical_device(&ip, instance, &req_dev_exts)?
SetupPhysicalDevice ==
    /\ cs.pc = "idle"
    /\ \E devices \in SeqsUpTo(PhysicalDevices, MaxDevices),
          required \in SUBSET DeviceExtensions :
         \/ cs' = [pc |-> "physical_device", devices |-> devices,
                   required |-> required,
                   err |-> find_physical_device(devices, required, 1).err,
                   val |-> find_physical_device(devices, required, 1).val]
         \* enumerate_physical_devices fails
         \/ cs' = [pc |-> "physical_device", devices |-> << >>,
                   required |-> required,
                   err |-> ERROR_OUT_OF_HOST_MEMORY, val |-> 0]
    /\ UNCHANGED notcs

\* Self::find_queue_families(&ip, physical_device, surface)?, then
\* Self::create_device(..)?
SetupQueueFamilies ==
    /\ cs.pc = "idle"
    /\ \E props \in SeqsUpTo(QueueFamilies, MaxFamilies), device_ok \in BOOLEAN :
         cs' = [pc |-> "queue_families", props |-> props,
                err |-> find_queue_families(props).err,
                val |-> find_queue_families(props).val,
                device |-> IF find_queue_families(props).err # Ok
                             THEN "not attempted"
                           ELSE IF device_ok THEN "created" ELSE "failed"]
    /\ UNCHANGED notcs

\* the next start of the program
SetupAgain ==
    /\ cs.pc # "idle"
    /\ cs' = SetupIdle
    /\ UNCHANGED notcs

SetupNext ==
    \/ SetupInstance
    \/ SetupPhysicalDevice
    \/ SetupQueueFamilies
    \/ SetupAgain

SetupSpec == SetupInit /\ [][SetupNext]_vars

\* C22: find_physical_device returns only a device of the discrete GPU type
\* that supports every required extension, the first such device in
\* enumeration order, and it returns an error when no enumerated device
\* qualifies.
C22_DiscreteDevice ==
    cs.pc = "physical_device" =>
        LET Qualifies(i) ==
                /\ cs.devices[i].deviceType = PHYSICAL_DEVICE_TYPE_DISCRETE_GPU
                /\ cs.required \subseteq cs.devices[i].extensions
        IN  /\ cs.err = Ok =>
                /\ cs.val \in 1..Len(cs.devices)
                /\ Qualifies(cs.val)
                /\ \A j \in 1..(cs.val - 1) : ~Qualifies(j)
            /\ (\A i \in 1..Len(cs.devices) : ~Qualifies(i)) => cs.err # Ok

\* C23: find_queue_families returns the lowest-index family with the graphics
\* capability and the lowest-index family that can present, which may be the
\* same family; when either is missing it returns an error and no logical
\* device is created.
C23_QueueFamilies ==
    cs.pc = "queue_families" =>
        LET Graphics == {i \in 1..Len(cs.props) :
                            cs.props[i].queueFlags % 2 = 1}
            Present == {i \in 1..Len(cs.props) : cs.props[i].support = "true"}
        IN  /\ (Graphics # {} /\ Present # {}) =>
                /\ cs.err = Ok
                /\ cs.val.graphics + 1 \in Graphics
                /\ \A i \in Graphics : cs.val.graphics + 1 <= i
                /\ cs.val.present + 1 \in Present
                /\ \A i \in Present : cs.val.present + 1 <= i
            /\ (Graphics = {} \/ Present = {}) =>
                /\ cs.err = Other
                /\ cs.device = "not attempted"

\* the first family has the graphics capability and can present (equal
\* indices) after a family whose support query failed was passed over, and in
\* another run no family can present
C23_Witness ==
    /\ cs.pc = "queue_families"
    /\ Len(cs.props) = 2
    /\ cs.props[1].support = "error"
    /\ cs.props[2].support = "true"
    /\ cs.props[2].queueFlags = QUEUE_GRAPHICS_BIT + QUEUE_COMPUTE_BIT
    /\ cs.props[1].queueFlags = QUEUE_COMPUTE_BIT
    /\ cs.err = Ok
    /\ cs.val.graphics = 1
    /\ cs.val.present = 1
    /\ cs.device = "created"

C26_MemoryType ==
    cs.pc = "memory_type" =>
        LET Good(i) ==
                /\ (cs.type_filter \div ShiftLeft1(i)) % 2 = 1
                /\ BitAnd(cs.memoryTypes[i + 1], cs.flags) = cs.flags
            Indices == 0..(Len(cs.memoryTypes) - 1)
        IN  /\ cs.err = Ok => (cs.val \in Indices /\ Good(cs.val))
            /\ (\A i \in Indices : ~Good(i)) => cs.err # Ok

\* the steps of a draw_frame call that act on the queue or on the gate
FrameSteps == {"reset", "submit", "present"}

\* TRUE iff one of the steps in S is in the trace of the current call
Traced(S) == \E k \in 1..Len(call.trace) : call.trace[k] \in S

\* C24: when the driver returns an image index that is not less than the
\* number of images, or current_frame is not a slot index, draw_frame returns
\* Error::Other and performs no gate reset, submit or present in that call.
C24_DefensiveChecks ==
    (call.op = "draw_frame" /\ call.drv_step \in {"get_image", "get_frame"}) =>
        /\ pc = "returned" => ret = Other
        /\ call.drv_err = Other
        /\ ~Traced(FrameSteps)
        /\ call.cf_entry \in Slots => fence[call.cf_entry]
        /\ \A p \in pending \cup presents : p.id # nDraw

\* the out-of-range image index arrives in a call after a frame was drawn
C24_Witness ==
    /\ pc = "returned"
    /\ call.drv_step = "get_image"
    /\ ret = Other
    /\ nAdvance >= 1
    /\ used[current_frame]

\* C27: when acquisition reports outdated, draw_frame makes no submission
\* and no present request, does not reset the current slot's gate, which stays
\* signaled, and leaves current_frame unchanged for the next call.
C27_AcquireOutdatedNoFrame ==
    (call.op = "draw_frame" /\ call.outdated = "acquire") =>
        /\ ~Traced(FrameSteps)
        /\ \A p \in pending \cup presents : p.id # nDraw
        /\ fence[current_frame]
        /\ current_frame = call.cf_entry

\* acquisition reported outdated on a slot that was used before, and the
\* call returned success
C27_Witness ==
    /\ pc = "returned"
    /\ ret = Ok
    /\ call.op = "draw_frame"
    /\ call.outdated = "acquire"
    /\ used[current_frame]
    /\ nAdvance >= 2

\* the order of the steps of draw_frame
StepOrder == <<"wait_frame", "acquire", "wait_image", "reset", "submit", "present">>

\* TRUE iff the step is one of StepOrder
IsOrderedStep(step) == \E k \in 1..Len(StepOrder) : StepOrder[k] = step

\* C28: the steps of each draw_frame call occur in the order wait on the
\* slot's gate, acquire, wait on the image's recorded gate, reset of the
\* slot's gate, submit with that gate as fence, present; no wait follows the
\* reset in the same call.
C28_StepOrder ==
    /\ call.op = "draw_frame" =>
         LET t == SelectSeq(call.trace, IsOrderedStep)
         IN  /\ Len(t) <= Len(StepOrder)
             /\ t = SubSeq(StepOrder, 1, Len(t))
    /\ \A p \in pending : p.fence = InFlightFence(p.slot)
    /\ (pc \in {"df_wait_frame", "df_wait_image"}) => ~Traced({"reset"})

\* the image's recorded gate is the current slot's own gate, and the call
\* went through all the steps
C28_Witness ==
    /\ pc = "returned"
    /\ ret = Ok
    /\ call.presented
    /\ call.cf_entry \in Slots
    /\ call.prev_gate = InFlightFence(call.cf_entry)
    /\ SelectSeq(call.trace, IsOrderedStep) = StepOrder

\* ---------------------------------------------------------------- fairness
\* the GPU and the presentation engine go on with what they were given
GpuFairness ==
    /\ WF_vars(AcquireSignal)
    /\ WF_vars(GpuStart)
    /\ WF_vars(GpuRetire)
    /\ WF_vars(PresentExecute)

\* the thread of make_loop goes on: a blocking wait returns once what it
\* waits for has happened (a driver error may end it earlier, but need not),
\* every other driver call returns
CpuFairness ==
    /\ WF_vars(DfWaitFrame /\ pc' = "df_acquire")
    /\ WF_vars(DfWaitImage /\ pc' = "df_reset")
    /\ WF_vars(ScWaitIdle /\ pc' = "sc_release")
    /\ WF_vars(DfCreate)
    /\ WF_vars(DfAcquire)
    /\ WF_vars(DfReset)
    /\ WF_vars(DfSubmit)
    /\ WF_vars(DfPresent)
    /\ WF_vars(ScRelease)

FairSpec == Spec /\ GpuFairness /\ CpuFairness

\* the places of draw_frame
DrawFramePcs ==
    {"df_create", "df_wait_frame", "df_acquire", "df_wait_image", "df_reset",
     "df_submit", "df_present"}

\* a draw_frame call is running, the teardown of its outdated paths included
InDrawFrame ==
    \/ pc \in DrawFramePcs
    \/ /\ pc \in {"sc_wait_idle", "sc_release"}
       /\ teardown.by \in {"acquire", "present"}

\* between two calls that returned success
BetweenCalls == pc \in {"loop", "events"} \/ (pc = "returned" /\ ret = Ok)

\* C29: after calls that all returned success every slot's gate is signaled
\* or is the fence of a submission still pending on the GPU; with a GPU that
\* retires every submitted batch, every gate wait of draw_frame returns and
\* every draw_frame call terminates.
C29_GatesReturn ==
    /\ [](BetweenCalls =>
            \A s \in Slots :
                fence[s] \/ \E p \in pending : p.fence = InFlightFence(s))
    /\ (pc = "df_wait_frame") ~> (pc # "df_wait_frame")
    /\ (pc = "df_wait_image") ~> (pc # "df_wait_image")
    /\ InDrawFrame ~> (pc = "returned")

\* TRUE iff the semaphore h holds no signal: none is pending, none is
\* unconsumed, and no queued batch or present request has yet to wait for it
NoSignal(h) ==
    /\ semaphore[h].state = "unsignaled"
    /\ \A p \in pending : p.signal # h /\ (p.stage = "queued" => p.wait # h)
    /\ \A q \in presents : q.wait # h

\* C30: in runs whose calls all return success, a slot's available semaphore
\* holds no pending or unconsumed signal when it is passed to acquire, and a
\* slot's rendered semaphore holds none when a submission is set to signal it.
C30_SemaphoreDiscipline ==
    /\ pc = "df_acquire" => NoSignal(AcquireSemaphore(current_frame))
    /\ pc = "df_submit" => NoSignal(SubmitSignal(current_frame))

\* C35: for every surface capabilities value, maxImageCount = 0 (no upper
\* limit) included, the image count that create_swapchain requests is at least
\* the surface's minImageCount.
C35_ImageCountAtLeastMin ==
    cs.pc = "image_count" => cs.image_count >= cs.caps.minImageCount

\* a teardown started by draw_frame's outdated path or by a resize
\* notification released the bundle and the call returned success
TornDown ==
    /\ teardown.by \in {"acquire", "present", "resize"}
    /\ teardown.released
    /\ ret = Ok
    /\ pc \in {"returned", "loop", "events"}

\* C31: after a draw_frame call that took the outdated path and returned
\* success, and after a resize notification that tore down a bundle, no
\* submission is pending and every slot's gate is signaled, current_frame is
\* unchanged, and the first frame of the rebuilt bundle does not block.
C31_IdleAfterTeardown ==
    /\ TornDown =>
         /\ pending = {}
         /\ \A s \in Slots : fence[s]
         /\ current_frame = call.cf_entry
    /\ (call.op = "draw_frame" /\ call.created /\ pc = "df_wait_frame") =>
         (current_frame \in Slots /\ fence[current_frame])
    /\ (call.op = "draw_frame" /\ call.created /\ pc = "df_wait_image") =>
         images[image_index + 1] = NULL_HANDLE

\* the first frame of a bundle rebuilt after the outdated path at present
\* has reached the wait for a gate that was reset and submitted before
C31_Witness ==
    /\ call.op = "draw_frame"
    /\ call.created
    /\ pc = "df_wait_frame"
    /\ "present" \in call.invalidated
    /\ used[current_frame]
    /\ nAdvance >= 1

\* TRUE iff h is the in-flight fence of one of the frame slots in ring
IsSlotFence(h, ring) == \E k \in 1..Len(ring) : ring[k].in_flight_fence = h

\* C32 as stated: in every reachable state each image's back-reference is
\* none or the in-flight gate of one of the existing frame slots.
C32_Original ==
    \A i \in 1..Len(images) :
        images[i] = NULL_HANDLE \/ IsSlotFence(images[i], inflight_frames)

\* C32: each image's back-reference is none or the gate of one of the frame
\* slots made at construction, which exist until Vulkan::destroy drains them;
\* every image of a newly created bundle has back-reference none; after a
\* draw_frame call that submitted image i on slot s the back-reference of
\* image i is the gate of slot s.
C32_BackReference ==
    /\ \A i \in 1..Len(images) :
          images[i] = NULL_HANDLE \/ IsSlotFence(images[i], FrameRing)
    /\ inflight_frames # << >> => C32_Original
    /\ (call.op = "draw_frame" /\ call.created
          /\ pc \in {"df_wait_frame", "df_acquire"}) =>
          \A i \in 1..Len(images) : images[i] = NULL_HANDLE
    /\ (call.op = "draw_frame" /\ pc = "returned" /\ Traced({"present"})
          /\ sc_ctx = "Some") =>
          images[image_index + 1] = InFlightFence(call.cf_entry)

\* a frame was submitted on slot 1 and presented; its image carries the gate
\* of slot 1 while another image still has none
C32_Witness ==
    /\ call.op = "draw_frame"
    /\ pc = "returned"
    /\ call.presented
    /\ call.cf_entry = 1
    /\ images[image_index + 1] = InFlightFence(1)
    /\ \E i \in 1..Len(images) : images[i] = NULL_HANDLE

\* the places of draw_frame that use the bundle
BundlePcs == DrawFramePcs \ {"df_create"}

\* the places inside Swapchain::destroy
DestroyPcs == {"sc_wait_idle", "sc_release"}

\* C33 as stated: a bundle is created only when the scheduler holds none, a
\* bundle that is not released is held by the scheduler or is being torn
\* down by Swapchain::destroy, and at the acquire step a bundle is present.
C33_Original ==
    /\ pc = "df_create" => sc_ctx = "None"
    /\ bundle_live => (sc_ctx = "Some" \/ pc \in DestroyPcs)
    /\ pc \in BundlePcs => sc_ctx = "Some"

\* C33: the assertion of create_swapchain holds and no unreleased bundle
\* exists when one is created; a bundle is present and unreleased at every
\* step of draw_frame from the first wait on; an unreleased bundle that the
\* scheduler no longer holds is inside Swapchain::destroy, or the idle wait of
\* its teardown failed and the error has ended the loop.
C33_BundleCreatedWhenNone ==
    /\ pc = "df_create" => (sc_ctx = "None" /\ ~bundle_live)
    /\ pc \in BundlePcs => (sc_ctx = "Some" /\ bundle_live)
    /\ (bundle_live /\ sc_ctx = "None") =>
          \/ pc \in DestroyPcs
          \/ /\ ~teardown.released
             /\ pc \in {"returned", "drop", "destroy_swapchain", "destroy_ctx", "done"}
             /\ pc = "returned" => ret \in FenceErrors

\* a second bundle is being created after a resize notification tore the
\* first one down
C33_Witness ==
    /\ pc = "df_create"
    /\ call.op = "draw_frame"
    /\ "resize" \in call.invalidated
    /\ nAdvance >= 1
    /\ sc_ctx = "None"
    /\ ~bundle_live

\* the idle wait of a teardown started by draw_frame's outdated path or by a
\* resize notification failed, and the call has returned
TeardownFailed ==
    /\ pc = "returned"
    /\ teardown.by \in {"acquire", "present", "resize"}
    /\ ~teardown.idle_ok

\* C34: when the device-idle wait fails during a teardown started by
\* draw_frame's outdated path or by a resize notification, the call returns
\* that error, none of the bundle's resources is released, and the scheduler
\* holds no bundle afterwards, so that a later draw_frame call would create one.
C34_FailedTeardown ==
    TeardownFailed =>
        /\ ret \in FenceErrors
        /\ ~teardown.released
        /\ teardown.order = << >>
        /\ bundle_live
        /\ sc_ctx = "None"
        /\ images = << >>
        /\ sc_handles = NULL_HANDLE

\* the idle wait of the teardown after a resize notification failed while a
\* submission was still pending
C34_Witness ==
    /\ TeardownFailed
    /\ teardown.by = "resize"
    /\ call.op = "on_framebuffer_changed"
    /\ ret = ERROR_DEVICE_LOST
    /\ pending # {}
====
